---- MODULE Spec2Model ----
(***************************************************************************)
(* questrade-ynab: a CLI that reads balances from Questrade and writes     *)
(* them into YNAB as transactions.                                         *)
(*                                                                         *)
(* The model follows one process invocation at a time (a command of the    *)
(* CLI), the two files it keeps under ~/.questrade-ynab (config.json and    *)
(* mappings.json), the process-wide viper settings, the questrade.Client   *)
(* and the remote services' answers, which are inputs chosen by \E.        *)
(*                                                                         *)
(* Conventions                                                             *)
(*  - a Go map[string]interface{} is a TLA+ function whose DOMAIN is the   *)
(*    set of keys present;                                                 *)
(*  - a line typed by the user is a sequence of chunks, a chunk being a    *)
(*    word or the blank " ";                                               *)
(*  - an HTTP body read as text is a sequence of words;                    *)
(*  - time is counted in ticks of one request timeout since the process    *)
(*    started at tick 1; the zero time.Time is tick 0;                     *)
(*  - money: Questrade's totalEquity (a float64 in dollars) is kept as a    *)
(*    whole number of SubUnits (1/10 of a YNAB milliunit), YNAB balances   *)
(*    are int64 milliunits. Arithmetic on them is exact decimal            *)
(*    arithmetic; int64(x) truncates toward zero.                          *)
(***************************************************************************)
EXTENDS Integers, Sequences, FiniteSets, TLC

VARIABLES
    cmd,          \* the command this process runs, "none" before the first
    pc,           \* where the process is
    runs,         \* number of process invocations so far
    dryRun,       \* the --dry-run flag of this invocation
    now,          \* the clock of this invocation, in ticks
    configJson,   \* ~/.questrade-ynab/config.json: [exists, kind, m]
    mappingsJson, \* ~/.questrade-ynab/mappings.json: [exists, kind, m]
    viper,        \* the process-wide viper settings (key -> value)
    origRefresh,  \* mapping list: the refresh token viper held at start
    loc,          \* locals refreshToken, accessToken, apiServer, expiresIn
    m,            \* auth login: its in-memory copy of config.json
    qClient,      \* the questrade.Client, NoClient before NewClient
    ensureErr,    \* what ensureValidQuestradeClient returned: "" is nil
    vres,         \* the IsAccessTokenValid call, if one was made: the
                  \* response it got and the valid, err it returned
    tr,           \* the TokenResponse of the last successful Refresh
    updates,      \* arguments of the updateConfigJSON calls of this run
    calls,        \* the I/O this invocation has done, in order
    qRemote,      \* Questrade: the accounts the API serves
    yRemote,      \* YNAB: the accounts the API serves (balances change)
    accountMapping, \* the mapping in memory (qNum -> yID)
    qAccounts,    \* result of qClient.GetAccounts()
    yAccounts,    \* result of yClient.GetAccounts()
    planned,      \* sync: the planned transactions, in order
    response,     \* sync: what Scanln stored for the approval prompt
    txi,          \* sync: index of the next planned transaction to create
    created,      \* sync: transactions YNAB accepted in this run
    selections,   \* mapping set: selections made in this session
    gaPc,         \* GetAccounts: where the calling goroutine is
    accountsResp, \* GetAccounts: accountsResp.Accounts
    loopI,        \* GetAccounts: the loop variable i of the spawning loop
    goroutines,   \* GetAccounts: idx -> state of the goroutine started for idx
    wg,           \* GetAccounts: the WaitGroup's counter
    subFailed,    \* GetAccounts: the idx whose balance request failed
    gaRet,        \* GetAccounts: what it returned, [err, accounts]
    listResp,     \* GetAccounts: the answer to GET v1/accounts
    afterSet,     \* the process before this one was an `auth set` that
                  \* saved its values
    logged        \* the lines this process wrote with log.Printf

vars == <<cmd, pc, runs, dryRun, now, configJson, mappingsJson, viper,
          origRefresh, loc, m, qClient, ensureErr, vres, tr, updates, calls,
          qRemote, yRemote, accountMapping, qAccounts, yAccounts, planned,
          response, txi, created, selections, gaPc, accountsResp, loopI,
          goroutines, wg, subFailed, gaRet, listResp, afterSet, logged>>

authVars == <<loc, m, qClient, ensureErr, vres, tr, updates>>
syncVars == <<accountMapping, qAccounts, yAccounts, planned, response, txi,
              created, selections>>
remoteVars == <<qRemote, yRemote>>
fetchVars == <<gaPc, accountsResp, loopI, goroutines, wg, subFailed, gaRet,
               listResp>>

----------------------------------------------------------------------------
(* Bounds of the model *)

\* process invocations followed in one behaviour
MaxRuns == 2

\* selections made in one `mapping set` session
MaxSelections == 2

----------------------------------------------------------------------------
(* Go maps and strings *)

EmptyMap == [k \in {} |-> ""]

Put(mp, k, v) == [x \in (DOMAIN mp) \cup {k} |-> IF x = k THEN v ELSE mp[x]]

\* v, ok := mp[k].(string): "" when the key is absent
GetString(mp, k) == IF k \in DOMAIN mp THEN mp[k] ELSE ""

\* the integer stored under k, 0 when the key is absent
GetInt(mp, k) == IF k \in DOMAIN mp THEN mp[k] ELSE 0

Blank == " "

RECURSIVE SkipSpace(_)
SkipSpace(line) ==
    IF line = <<>> THEN <<>>
    ELSE IF Head(line) = Blank THEN SkipSpace(Tail(line))
    ELSE line

\* fmt.Scanln(&s): blanks are skipped and the next word is stored; the rest
\* of the line is not stored (the "expected newline" error is dropped by
\* every caller); an empty line stores nothing, s keeps its zero value.
Scanln(line) ==
    LET rest == SkipSpace(line)
    IN  IF rest = <<>> THEN "" ELSE Head(rest)

\* strings.TrimSpace of a string that came out of Scanln: such a string
\* holds no blank, so nothing is cut.
TrimSpace(s) == IF s = Blank THEN "" ELSE s

\* strings.ToLower, on the words of the model
ToLower(s) ==
    CASE s = "YES" -> "yes"
      [] s = "Yes" -> "yes"
      [] s = "Invalid" -> "invalid"
      [] s = "ACCESS" -> "access"
      [] OTHER -> s

RECURSIVE TrimLeft(_)
TrimLeft(line) ==
    IF line = <<>> THEN <<>>
    ELSE IF Head(line) = Blank THEN TrimLeft(Tail(line))
    ELSE line

RECURSIVE TrimRight(_)
TrimRight(line) ==
    IF line = <<>> THEN <<>>
    ELSE IF line[Len(line)] = Blank THEN TrimRight(SubSeq(line, 1, Len(line) - 1))
    ELSE line

\* reader.ReadString('\n') followed by strings.TrimSpace: the line without
\* its leading and trailing blanks; the model's token lines hold at most
\* one word, which is the string that results.
ReadLineTrimmed(line) ==
    LET t == TrimRight(TrimLeft(line))
    IN  IF t = <<>> THEN "" ELSE Head(t)

\* strings.Contains(strings.ToLower(body), w) on a body of words
ContainsLower(body, w) == \E i \in 1..Len(body) : ToLower(body[i]) = w

----------------------------------------------------------------------------
(* internal/questrade: the client *)

NoClient == [refreshToken |-> "", accessToken |-> "", apiServer |-> "",
             expiresAt |-> 0, made |-> FALSE]

NoResponse == [access_token |-> "", refresh_token |-> "", api_server |-> "",
               expires_in |-> 0]

NewClient(refreshToken) ==
    [refreshToken |-> refreshToken, accessToken |-> "", apiServer |-> "",
     expiresAt |-> 0, made |-> TRUE]

SetAccessToken(c, accessToken, apiServer, expiresIn, t) ==
    [c EXCEPT !.accessToken = accessToken, !.apiServer = apiServer,
              !.expiresAt = t + expiresIn]

\* what the token endpoint may answer: no answer at all, a status other
\* than 200, a 200 whose body is no JSON object, or a 200 with a body
TokenBodies ==
    {[access_token |-> "a2", refresh_token |-> "r3", api_server |-> "s2",
      expires_in |-> 2],
     [access_token |-> "a2", refresh_token |-> "", api_server |-> "s2",
      expires_in |-> 2],
     [access_token |-> "a2", refresh_token |-> "r3", api_server |-> "",
      expires_in |-> 2],
     [access_token |-> "a2", refresh_token |-> "r3", api_server |-> "s2",
      expires_in |-> 0],
     [access_token |-> "", refresh_token |-> "r3", api_server |-> "s2",
      expires_in |-> 2]}

RefreshResponses ==
    {[transport |-> FALSE, status |-> 0, decodes |-> FALSE, body |-> NoResponse],
     [transport |-> TRUE, status |-> 400, decodes |-> TRUE, body |-> NoResponse],
     [transport |-> TRUE, status |-> 200, decodes |-> FALSE, body |-> NoResponse]}
    \cup {[transport |-> TRUE, status |-> 200, decodes |-> TRUE, body |-> b] :
            b \in TokenBodies}

\* the error Refresh returns for a response, "" for nil
RefreshError(resp) ==
    IF ~resp.transport THEN "failed to refresh token"
    ELSE IF resp.status # 200 THEN "token refresh failed"
    ELSE IF ~resp.decodes THEN "failed to parse token response"
    ELSE IF resp.body.access_token = "" THEN "no access token in response"
    ELSE ""

\* variant: the response's refresh_token is stored even when it is empty
RotatedAlways(c, tokenResp) == tokenResp.refresh_token

\* the refresh token the client holds after a successful Refresh
RotatedRefreshToken(c, tokenResp) ==
    IF tokenResp.refresh_token # "" THEN tokenResp.refresh_token
    ELSE c.refreshToken

\* the client after a successful Refresh that got tokenResp at time t
RefreshedClient(c, tokenResp, t) ==
    [c EXCEPT !.accessToken = tokenResp.access_token,
              !.apiServer = tokenResp.api_server,
              !.expiresAt = t + tokenResp.expires_in,
              !.refreshToken = RotatedRefreshToken(c, tokenResp)]

\* variant: the fields are assigned before access_token is looked at
RefreshAssignsFirst(c, resp, t) ==
    LET e == RefreshError(resp)
    IN  IF e = "" THEN [err |-> "", client |-> RefreshedClient(c, resp.body, t),
                        tr |-> resp.body]
        ELSE IF e = "no access token in response"
             THEN [err |-> e, client |-> RefreshedClient(c, resp.body, t),
                   tr |-> NoResponse]
        ELSE [err |-> e, client |-> c, tr |-> NoResponse]

\* Client.Refresh: the error, the client afterwards, the response returned
Refresh(c, resp, t) ==
    LET e == RefreshError(resp)
    IN  IF e # "" THEN [err |-> e, client |-> c, tr |-> NoResponse]
        ELSE [err |-> "", client |-> RefreshedClient(c, resp.body, t),
              tr |-> resp.body]

\* what the /v1/time endpoint may answer
ValidateBodies == {<<"ok">>, <<"Invalid", "ACCESS", "token">>, <<"error">>}

ValidateResponses ==
    {[transport |-> FALSE, status |-> 0, body |-> <<>>]}
    \cup {[transport |-> TRUE, status |-> s, body |-> b] :
            s \in {200, 401, 500}, b \in ValidateBodies}

\* variant: the body is searched without strings.ToLower
ClassifyValidationCaseSensitive(resp) ==
    IF ~resp.transport THEN [valid |-> FALSE, err |-> "failed to make request"]
    ELSE IF resp.status = 200 THEN [valid |-> TRUE, err |-> ""]
    ELSE IF resp.status = 401 THEN [valid |-> FALSE, err |-> ""]
    ELSE IF /\ \E i \in 1..Len(resp.body) : resp.body[i] = "invalid"
            /\ \E i \in 1..Len(resp.body) : resp.body[i] = "access"
         THEN [valid |-> FALSE, err |-> ""]
    ELSE [valid |-> FALSE, err |-> "unexpected status from token validate"]

\* Client.IsAccessTokenValid once the request was sent
ClassifyValidation(resp) ==
    IF ~resp.transport THEN [valid |-> FALSE, err |-> "failed to make request"]
    ELSE IF resp.status = 200 THEN [valid |-> TRUE, err |-> ""]
    ELSE IF resp.status = 401 THEN [valid |-> FALSE, err |-> ""]
    ELSE IF ContainsLower(resp.body, "invalid") /\ ContainsLower(resp.body, "access")
         THEN [valid |-> FALSE, err |-> ""]
    ELSE [valid |-> FALSE, err |-> "unexpected status from token validate"]

\* Client.IsAccessTokenValid: no request is sent for an empty argument
IsAccessTokenValid(accessToken, apiServer, resp) ==
    IF accessToken = "" \/ apiServer = "" THEN [valid |-> FALSE, err |-> ""]
    ELSE ClassifyValidation(resp)

\* the clock when a request sent at t has been answered: a request takes
\* one tick
After(t) == t + 1

----------------------------------------------------------------------------
(* cmd: config.json *)

ConfigKeys == {"questrade_refresh_token", "questrade_access_token",
               "questrade_api_server", "questrade_expires_in",
               "ynab_access_token", "ynab_budget_id"}

NoFile == [exists |-> FALSE, kind |-> "none", m |-> EmptyMap]

\* a file that holds the JSON object mp
File(mp) == [exists |-> TRUE, kind |-> "object", m |-> mp]

\* a file that holds `null`: valid JSON that is not an object
NullFile == [exists |-> TRUE, kind |-> "null", m |-> EmptyMap]

\* a file that holds no valid JSON (and no valid YAML either)
InvalidFile == [exists |-> TRUE, kind |-> "invalid", m |-> EmptyMap]

\* var m map[string]interface{}; _ = json.Unmarshal(data, &m): m is left
\* nil when the file was read but holds no JSON object
NilRecord(file) == file.exists /\ file.kind # "object"

\* whether updateConfigJSON assigns to an entry of its record
StoresEntry(refreshToken, accessToken, apiServer, expiresIn) ==
    refreshToken # "" \/ accessToken # "" \/ apiServer # "" \/ expiresIn > 0

\* updateConfigJSON assigns to an entry of a nil map: the process panics
UpdatePanics(file, refreshToken, accessToken, apiServer, expiresIn) ==
    NilRecord(file) /\ StoresEntry(refreshToken, accessToken, apiServer, expiresIn)

\* variant: the map written holds the Questrade values only
UpdatedMapFresh(mp, refreshToken, accessToken, apiServer, expiresIn) ==
    LET m1 == IF refreshToken # "" THEN Put(EmptyMap, "questrade_refresh_token", refreshToken) ELSE EmptyMap
        m2 == IF accessToken # "" THEN Put(m1, "questrade_access_token", accessToken) ELSE m1
        m3 == IF apiServer # "" THEN Put(m2, "questrade_api_server", apiServer) ELSE m2
        m4 == IF expiresIn > 0 THEN Put(m3, "questrade_expires_in", expiresIn) ELSE m3
    IN  m4

\* the map updateConfigJSON writes: a value is stored only when it is
\* non-empty (a positive number for expires_in)
UpdatedMap(mp, refreshToken, accessToken, apiServer, expiresIn) ==
    LET m1 == IF refreshToken # "" THEN Put(mp, "questrade_refresh_token", refreshToken) ELSE mp
        m2 == IF accessToken # "" THEN Put(m1, "questrade_access_token", accessToken) ELSE m1
        m3 == IF apiServer # "" THEN Put(m2, "questrade_api_server", apiServer) ELSE m2
        m4 == IF expiresIn > 0 THEN Put(m3, "questrade_expires_in", expiresIn) ELSE m3
    IN  m4

\* updateConfigJSON: the file afterwards; wok tells whether os.WriteFile
\* succeeded (a failed write leaves the file as it was)
updateConfigJSON(file, refreshToken, accessToken, apiServer, expiresIn, wok) ==
    LET mp == IF file.exists THEN file.m ELSE EmptyMap
    IN  IF ~wok THEN file
        ELSE IF NilRecord(file) THEN NullFile
        ELSE File(UpdatedMap(mp, refreshToken, accessToken, apiServer, expiresIn))

\* the record kept of one updateConfigJSON call
UpdateCall(refreshToken, accessToken, apiServer, expiresIn, wok) ==
    [refreshToken |-> refreshToken, accessToken |-> accessToken,
     apiServer |-> apiServer, expiresIn |-> expiresIn, ok |-> wok]

\* loadConfig: every key of config.json is copied into viper (none when
\* the file holds null). Without a config.json viper looks for a config
\* file of its own, and the model has none: "config file not found"; a
\* config.json that json.Unmarshal rejects is left to viper.ReadInConfig,
\* which cannot parse it either.
loadConfig(file, vp) ==
    IF file.exists /\ file.kind = "invalid"
    THEN [err |-> "config parse error", viper |-> vp]
    ELSE IF file.exists
    THEN [err |-> "",
          viper |-> [k \in (DOMAIN vp) \cup ((DOMAIN file.m) \cap ConfigKeys) |->
                        IF k \in DOMAIN file.m THEN file.m[k] ELSE vp[k]]]
    ELSE [err |-> "config file not found", viper |-> vp]

\* variant: expires_in is not looked at
HasCachedTokenAnyExpiry(accessToken, apiServer, expiresIn) == accessToken # "" /\ apiServer # ""

\* the cached access token is complete
HasCachedToken(accessToken, apiServer, expiresIn) ==
    accessToken # "" /\ apiServer # "" /\ expiresIn > 0

\* variant: the validity test negated
ValidationPassedInverted(r) == r.err = "" /\ ~r.valid

\* the validation result on which the cached token is kept
ValidationPassed(r) == r.err = "" /\ r.valid

Ev(op, tok) == [op |-> op, tok |-> tok]

\* lines the user may type at a token prompt
TokenLines == {<<>>, <<Blank>>, <<"r2">>, <<Blank, "r2", Blank>>}

NoValidation == [called |-> FALSE, valid |-> FALSE, err |-> "",
                 resp |-> [transport |-> FALSE, status |-> 0, body |-> <<>>]]

NoLocals == [refreshToken |-> "", accessToken |-> "", apiServer |-> "",
             expiresIn |-> 0, rt |-> ""]

----------------------------------------------------------------------------
(* cmd: ensureValidQuestradeClient, shared by sync, mapping list and     *)
(* mapping set. It returns at pc = "ensure_ret" with ensureErr set.      *)

Lifecycle == {"sync", "mapping_list", "mapping_set"}

\* the locals read from viper after loadConfig
LoadedLocals(vp) ==
    [refreshToken |-> GetString(vp, "questrade_refresh_token"),
     accessToken |-> GetString(vp, "questrade_access_token"),
     apiServer |-> GetString(vp, "questrade_api_server"),
     expiresIn |-> GetInt(vp, "questrade_expires_in"),
     rt |-> ""]

\* where ensureValidQuestradeClient goes once the refresh token is known
EnsureAfterToken(refreshToken) ==
    IF refreshToken = "" THEN "ensure_prompt" ELSE "ensure_client"

EnsureLoad ==
    /\ pc = "ensure_load"
    /\ LET r == loadConfig(configJson, viper)
       IN  IF r.err # ""
           THEN /\ ensureErr' = r.err
                /\ pc' = "ensure_ret"
                /\ UNCHANGED <<viper, loc>>
           ELSE /\ viper' = r.viper
                /\ loc' = LoadedLocals(r.viper)
                /\ pc' = EnsureAfterToken(LoadedLocals(r.viper).refreshToken)
                /\ UNCHANGED ensureErr
    /\ UNCHANGED <<cmd, runs, dryRun, now, configJson, mappingsJson,
                   origRefresh, m, qClient, vres, tr, updates, calls, remoteVars, fetchVars, afterSet, logged,
                   syncVars>>

\* the I/O of a token prompt of ensureValidQuestradeClient: the prompt,
\* and for a non-empty answer the updateConfigJSON call that stores it
PromptEvents(rt) ==
    IF rt = "" THEN <<Ev("prompt", rt)>>
    ELSE <<Ev("prompt", rt), Ev("update", rt)>>

\* where the first prompt goes for what was entered
EnsurePromptNext(rt) == IF rt = "" THEN "ensure_ret" ELSE "ensure_client"

EnsurePrompt ==
    /\ pc = "ensure_prompt"
    /\ \E line \in TokenLines, wok \in BOOLEAN :
         LET rt == TrimSpace(Scanln(line))
         IN  IF rt # "" /\ UpdatePanics(configJson, rt, "", "", 0)
             THEN /\ calls' = Append(calls, Ev("prompt", rt))
                  /\ pc' = "panic"
                  /\ UNCHANGED <<ensureErr, loc, configJson, updates>>
             ELSE /\ calls' = calls \o PromptEvents(rt)
                  /\ pc' = EnsurePromptNext(rt)
                  /\ IF rt = ""
                     THEN /\ ensureErr' = "no refresh token provided"
                          /\ UNCHANGED <<loc, configJson, updates>>
                     ELSE /\ loc' = [loc EXCEPT !.refreshToken = rt]
                          /\ configJson' = updateConfigJSON(configJson, rt, "", "", 0, wok)
                          /\ updates' = Append(updates, UpdateCall(rt, "", "", 0, wok))
                          /\ UNCHANGED ensureErr
    /\ UNCHANGED <<cmd, runs, dryRun, now, mappingsJson, viper, origRefresh,
                   m, qClient, vres, tr, remoteVars, fetchVars, afterSet, logged, syncVars>>

\* variant: the cached access token is not given to the client
LoadedClientBare(l, t) == NewClient(l.refreshToken)

\* the client as built from the loaded values at time t
LoadedClient(l, t) ==
    IF HasCachedToken(l.accessToken, l.apiServer, l.expiresIn)
    THEN SetAccessToken(NewClient(l.refreshToken), l.accessToken, l.apiServer,
                        l.expiresIn, t)
    ELSE NewClient(l.refreshToken)

EnsureClient ==
    /\ pc = "ensure_client"
    /\ qClient' = LoadedClient(loc, now)
    /\ pc' = IF HasCachedToken(loc.accessToken, loc.apiServer, loc.expiresIn)
             THEN "ensure_validate" ELSE "ensure_refresh"
    /\ UNCHANGED <<cmd, runs, dryRun, now, configJson, mappingsJson, viper,
                   origRefresh, loc, m, ensureErr, vres, tr, updates, calls,
                   remoteVars, fetchVars, afterSet, logged, syncVars>>

EnsureValidate ==
    /\ pc = "ensure_validate"
    /\ \E resp \in ValidateResponses :
         LET r == IsAccessTokenValid(loc.accessToken, loc.apiServer, resp)
         IN  /\ calls' = Append(calls, Ev("validate", loc.accessToken))
             /\ now' = After(now)
             /\ vres' = [called |-> TRUE, valid |-> r.valid, err |-> r.err,
                          resp |-> resp]
             /\ pc' = IF ValidationPassed(r) THEN "ensure_ret" ELSE "ensure_refresh"
    /\ UNCHANGED <<cmd, runs, dryRun, configJson, mappingsJson, viper,
                   origRefresh, loc, m, qClient, ensureErr, tr, updates,
                   remoteVars, fetchVars, afterSet, logged, syncVars>>

\* variant: nothing is stored after a successful Refresh
PersistSkipped(file, tokenResp, wok) == [file |-> file, calls |-> <<>>]

\* the updateConfigJSON call that follows a successful Refresh: the file
\* afterwards and the call made
PersistRefreshed(file, tokenResp, wok) ==
    [file |-> updateConfigJSON(file, tokenResp.refresh_token,
                               tokenResp.access_token, tokenResp.api_server,
                               tokenResp.expires_in, wok),
     calls |-> <<UpdateCall(tokenResp.refresh_token, tokenResp.access_token,
                            tokenResp.api_server, tokenResp.expires_in, wok)>>]

\* variant: a write that failed is returned as the error
ErrOfPersist(p) ==
    IF \A i \in 1..Len(p.calls) : p.calls[i].ok THEN ""
    ELSE "failed to persist refreshed token"

\* the error ensureValidQuestradeClient returns after a successful Refresh:
\* perr is printed as a warning and nil is returned
ErrAfterPersist(p) == ""

\* one line of the log: the format string of the log.Printf call and the
\* values it prints into it
LogLine(format, args) == [format |-> format, args |-> args]

\* the values a response body shows when it is printed: the tokens and the
\* server of a token response, nothing of the other bodies
BodyValues(resp) ==
    IF resp.status = 200 /\ resp.decodes
    THEN <<resp.body.access_token, resp.body.refresh_token, resp.body.api_server>>
    ELSE <<>>

\* what Refresh writes to the log for the refresh token it sends and the
\* response it gets: the request with its URL and its body, which both hold
\* the refresh token; the response with its body once it was read; the body
\* again when it cannot be parsed or has no access token
RefreshLog(refreshToken, resp) ==
    <<LogLine("questrade token refresh request: POST %s body=%s",
              <<refreshToken, refreshToken>>)>>
    \o (IF resp.transport
        THEN <<LogLine("questrade token refresh response: status=%d body=%s",
                       BodyValues(resp))>>
        ELSE <<>>)
    \o (IF resp.transport /\ resp.status = 200 /\ ~resp.decodes
        THEN <<LogLine("failed to parse token response body: %s",
                       BodyValues(resp))>>
        ELSE <<>>)
    \o (IF resp.transport /\ resp.status = 200 /\ resp.decodes
           /\ resp.body.access_token = ""
        THEN <<LogLine("token response missing access_token: %s",
                       BodyValues(resp))>>
        ELSE <<>>)

\* the I/O of a Refresh and of what follows it: the request, then the
\* failure reported or the updateConfigJSON calls made
RefreshEvents(sent, r, p) ==
    IF r.err = ""
    THEN <<Ev("refresh", sent)>> \o [i \in 1..Len(p.calls) |-> Ev("update", p.calls[i].refreshToken)]
    ELSE <<Ev("refresh", sent), Ev("refresh_failed", r.err)>>

EnsureRefresh ==
    /\ pc = "ensure_refresh"
    /\ \E resp \in RefreshResponses, wok \in BOOLEAN :
         LET r == Refresh(qClient, resp, After(now))
             p == PersistRefreshed(configJson, r.tr, wok)
         IN  /\ calls' = calls \o RefreshEvents(qClient.refreshToken, r, p)
             /\ now' = After(now)
             /\ logged' = logged \o RefreshLog(qClient.refreshToken, resp)
             /\ qClient' = r.client
             /\ IF r.err = ""
                THEN /\ tr' = r.tr
                     /\ configJson' = p.file
                     /\ updates' = updates \o p.calls
                     /\ ensureErr' = ErrAfterPersist(p)
                     /\ pc' = "ensure_ret"
                ELSE /\ pc' = "ensure_recover"
                     /\ UNCHANGED <<tr, configJson, updates, ensureErr>>
    /\ UNCHANGED <<cmd, runs, dryRun, mappingsJson, viper, origRefresh, loc,
                   m, vres, remoteVars, fetchVars, afterSet, syncVars>>

\* variant: the retry is made whatever was entered
EnsureRecoverNextAlways(rt) == "ensure_retry"

\* where the recovery prompt goes for what was entered
EnsureRecoverNext(rt) == IF rt = "" THEN "ensure_ret" ELSE "ensure_retry"

EnsureRecover ==
    /\ pc = "ensure_recover"
    /\ \E line \in TokenLines, wok \in BOOLEAN :
         LET rt == TrimSpace(Scanln(line))
         IN  /\ calls' = calls \o PromptEvents(rt)
             /\ pc' = EnsureRecoverNext(rt)
             /\ IF rt = ""
                THEN /\ ensureErr' = "no refresh token provided"
                     /\ UNCHANGED <<loc, configJson, updates>>
                ELSE /\ loc' = [loc EXCEPT !.rt = rt]
                     /\ configJson' = updateConfigJSON(configJson, rt, "", "", 0, wok)
                     /\ updates' = Append(updates, UpdateCall(rt, "", "", 0, wok))
                     /\ UNCHANGED ensureErr
    /\ UNCHANGED <<cmd, runs, dryRun, now, mappingsJson, viper, origRefresh,
                   m, qClient, vres, tr, remoteVars, fetchVars, afterSet, logged, syncVars>>

\* variant: the retry is made with the token that failed
RetryClientStale(l) == NewClient(l.refreshToken)

\* qClient = questrade.NewClient(rt): the client of the retry holds the
\* token entered at the recovery prompt
RetryClient(l) == NewClient(l.rt)

\* variant: a failed retry goes back to the recovery prompt
EnsureRetryPromptsAgain == "ensure_recover"

\* where ensureValidQuestradeClient goes when the retry has failed too
EnsureRetryFailed == "ensure_ret"

EnsureRetry ==
    /\ pc = "ensure_retry"
    /\ \E resp \in RefreshResponses, wok \in BOOLEAN :
         LET r == Refresh(RetryClient(loc), resp, After(now))
             p == PersistRefreshed(configJson, r.tr, wok)
         IN  /\ calls' = calls \o RefreshEvents(RetryClient(loc).refreshToken, r, p)
             /\ now' = After(now)
             /\ logged' = logged \o RefreshLog(RetryClient(loc).refreshToken, resp)
             /\ qClient' = r.client
             /\ IF r.err = ""
                THEN /\ tr' = r.tr
                     /\ configJson' = p.file
                     /\ updates' = updates \o p.calls
                     /\ pc' = "ensure_ret"
                     /\ ensureErr' = ErrAfterPersist(p)
                ELSE /\ ensureErr' = "failed to refresh with provided token"
                     /\ pc' = EnsureRetryFailed
                     /\ UNCHANGED <<tr, configJson, updates>>
    /\ UNCHANGED <<cmd, runs, dryRun, mappingsJson, viper, origRefresh, loc,
                   m, vres, remoteVars, fetchVars, afterSet, syncVars>>

----------------------------------------------------------------------------
(* cmd: auth set *)

\* lines the user may type at the prompts of auth set
SetTokenLines == {<<>>, <<Blank, "r1", Blank>>}

SetYnabLines == {<<>>, <<"yt">>}

SetBudgetLines == {<<"yb">>}

\* the object auth set encodes: the three entered values and nothing else
SetConfig(questradeRefreshToken, ynabToken, budgetID) ==
    [questrade_refresh_token |-> questradeRefreshToken,
     ynab_access_token |-> ynabToken,
     ynab_budget_id |-> budgetID]

\* variant: the entered values are added to what config.json holds
SetMerged(file, cfg) ==
    File([k \in (DOMAIN file.m) \cup (DOMAIN cfg) |->
            IF k \in DOMAIN cfg THEN cfg[k] ELSE file.m[k]])

\* os.WriteFile(jsonPath, b, 0600): the file is replaced
SetWritten(file, cfg) == File(cfg)

\* the three prompts, os.MkdirAll, json.MarshalIndent and os.WriteFile;
\* dok and wok tell whether MkdirAll and WriteFile succeeded
AuthSet ==
    /\ pc = "set_run"
    /\ \E l1 \in SetTokenLines, l2 \in SetYnabLines, l3 \in SetBudgetLines,
          dok \in BOOLEAN, wok \in BOOLEAN :
         LET questradeRefreshToken == ReadLineTrimmed(l1)
             ynabToken == ReadLineTrimmed(l2)
             budgetID == ReadLineTrimmed(l3)
             entered == <<Ev("set_prompt", questradeRefreshToken),
                          Ev("set_prompt", ynabToken),
                          Ev("set_prompt", budgetID)>>
         IN  IF ~dok
             THEN /\ calls' = calls \o entered
                  /\ pc' = "exit1"
                  /\ UNCHANGED configJson
             ELSE /\ calls' = calls \o entered
                                \o <<Ev("write_file", questradeRefreshToken)>>
                  /\ configJson' =
                       IF wok
                       THEN SetWritten(configJson,
                                       SetConfig(questradeRefreshToken, ynabToken, budgetID))
                       ELSE configJson
                  /\ pc' = IF wok THEN "exit0" ELSE "exit1"
    /\ UNCHANGED <<cmd, runs, dryRun, now, mappingsJson, viper, origRefresh,
                   authVars, remoteVars, fetchVars, afterSet, logged, syncVars>>

----------------------------------------------------------------------------
(* cmd: auth login *)

\* the values auth login reads from its copy of config.json
LoginLocals(mp) ==
    [refreshToken |-> GetString(mp, "questrade_refresh_token"),
     accessToken |-> GetString(mp, "questrade_access_token"),
     apiServer |-> GetString(mp, "questrade_api_server"),
     expiresIn |-> GetInt(mp, "questrade_expires_in"),
     rt |-> ""]

\* writeConfig: config.json becomes the in-memory map
writeConfig(file, mp, wok) == IF wok THEN File(mp) ELSE file

AuthLoginLoad ==
    /\ pc = "login_load"
    /\ LET mp == IF configJson.exists THEN configJson.m ELSE EmptyMap
       IN  /\ m' = mp
           /\ loc' = LoginLocals(mp)
           /\ pc' = IF LoginLocals(mp).refreshToken = ""
                    THEN "login_prompt" ELSE "login_client"
    /\ UNCHANGED <<cmd, runs, dryRun, now, configJson, mappingsJson, viper,
                   origRefresh, qClient, ensureErr, vres, tr, updates, calls,
                   remoteVars, fetchVars, afterSet, logged, syncVars>>

\* the prompt for a missing refresh token, m["questrade_refresh_token"] =
\* refreshToken and writeConfig. The map m is nil exactly when the
\* config.json read at the start held no object (the file has not changed
\* since), and the assignment to an entry of a nil map panics.
AuthLoginPrompt ==
    /\ pc = "login_prompt"
    /\ \E line \in TokenLines, wok \in BOOLEAN :
         LET rt == ReadLineTrimmed(line)
         IN  IF NilRecord(configJson)
             THEN /\ calls' = Append(calls, Ev("prompt", rt))
                  /\ pc' = "panic"
                  /\ UNCHANGED <<loc, m, configJson>>
             ELSE /\ calls' = calls \o <<Ev("prompt", rt), Ev("write_config", rt)>>
                  /\ loc' = [loc EXCEPT !.refreshToken = rt]
                  /\ m' = Put(m, "questrade_refresh_token", rt)
                  /\ configJson' = writeConfig(configJson,
                                               Put(m, "questrade_refresh_token", rt), wok)
                  /\ pc' = "login_client"
    /\ UNCHANGED <<cmd, runs, dryRun, now, mappingsJson, viper, origRefresh,
                   qClient, ensureErr, vres, tr, updates, remoteVars, fetchVars, afterSet, logged, syncVars>>

AuthLoginClient ==
    /\ pc = "login_client"
    /\ qClient' = LoadedClient(loc, now)
    /\ pc' = IF HasCachedToken(loc.accessToken, loc.apiServer, loc.expiresIn)
             THEN "login_validate" ELSE "login_refresh"
    /\ UNCHANGED <<cmd, runs, dryRun, now, configJson, mappingsJson, viper,
                   origRefresh, loc, m, ensureErr, vres, tr, updates, calls,
                   remoteVars, fetchVars, afterSet, logged, syncVars>>

AuthLoginValidate ==
    /\ pc = "login_validate"
    /\ \E resp \in ValidateResponses :
         LET r == IsAccessTokenValid(loc.accessToken, loc.apiServer, resp)
         IN  /\ calls' = Append(calls, Ev("validate", loc.accessToken))
             /\ now' = After(now)
             /\ vres' = [called |-> TRUE, valid |-> r.valid, err |-> r.err,
                          resp |-> resp]
             /\ pc' = IF ValidationPassed(r) THEN "exit0" ELSE "login_refresh"
    /\ UNCHANGED <<cmd, runs, dryRun, configJson, mappingsJson, viper,
                   origRefresh, loc, m, qClient, ensureErr, tr, updates,
                   remoteVars, fetchVars, afterSet, logged, syncVars>>

AuthLoginRefresh ==
    /\ pc = "login_refresh"
    /\ \E resp \in RefreshResponses, wok \in BOOLEAN :
         LET r == Refresh(qClient, resp, After(now))
             p == PersistRefreshed(configJson, r.tr, wok)
         IN  /\ calls' = calls \o RefreshEvents(qClient.refreshToken, r, p)
             /\ now' = After(now)
             /\ logged' = logged \o RefreshLog(qClient.refreshToken, resp)
             /\ qClient' = r.client
             /\ IF r.err = ""
                THEN /\ tr' = r.tr
                     /\ configJson' = p.file
                     /\ updates' = updates \o p.calls
                     /\ pc' = "exit0"
                ELSE /\ pc' = "login_recover"
                     /\ UNCHANGED <<tr, configJson, updates>>
    /\ UNCHANGED <<cmd, runs, dryRun, mappingsJson, viper, origRefresh, loc,
                   m, ensureErr, vres, remoteVars, fetchVars, afterSet, syncVars>>

AuthLoginRecover ==
    /\ pc = "login_recover"
    /\ \E line \in TokenLines, wok \in BOOLEAN :
         LET rt == ReadLineTrimmed(line)
         IN  IF rt = ""
             THEN /\ calls' = Append(calls, Ev("prompt", rt))
                  /\ pc' = "exit1"
                  /\ UNCHANGED <<loc, m, configJson>>
             ELSE /\ calls' = calls \o <<Ev("prompt", rt), Ev("write_config", rt)>>
                  /\ loc' = [loc EXCEPT !.rt = rt]
                  /\ m' = Put(m, "questrade_refresh_token", rt)
                  /\ configJson' = writeConfig(configJson,
                                       Put(m, "questrade_refresh_token", rt), wok)
                  /\ pc' = "login_retry"
    /\ UNCHANGED <<cmd, runs, dryRun, now, mappingsJson, viper, origRefresh,
                   qClient, ensureErr, vres, tr, updates, remoteVars, fetchVars, afterSet, logged, syncVars>>

\* where auth login goes when the retry has failed too: os.Exit(1)
AuthLoginRetryFailed == "exit1"

AuthLoginRetry ==
    /\ pc = "login_retry"
    /\ \E resp \in RefreshResponses, wok \in BOOLEAN :
         LET r == Refresh(RetryClient(loc), resp, After(now))
             p == PersistRefreshed(configJson, r.tr, wok)
         IN  /\ calls' = calls \o RefreshEvents(RetryClient(loc).refreshToken, r, p)
             /\ now' = After(now)
             /\ logged' = logged \o RefreshLog(RetryClient(loc).refreshToken, resp)
             /\ qClient' = r.client
             /\ IF r.err = ""
                THEN /\ tr' = r.tr
                     /\ configJson' = p.file
                     /\ updates' = updates \o p.calls
                     /\ pc' = "exit0"
                ELSE /\ pc' = AuthLoginRetryFailed
                     /\ UNCHANGED <<tr, configJson, updates>>
    /\ UNCHANGED <<cmd, runs, dryRun, mappingsJson, viper, origRefresh, loc,
                   m, ensureErr, vres, remoteVars, fetchVars, afterSet, syncVars>>

----------------------------------------------------------------------------
(* The remote services as the commands see them *)

\* resolution of the model's dollar amounts: SubUnits in one milliunit
SubPerMilli == 10

\* a Questrade account: Balances is nil (hasBalances false) or holds the
\* TotalEquity of its combinedBalances entries, in SubUnits
QAccount(number, hasBalances, combined) ==
    [Number |-> number, hasBalances |-> hasBalances, CombinedBalances |-> combined]

\* a YNAB account, Balance in milliunits
YAccount(id, balance) == [ID |-> id, Balance |-> balance]

\* Client.GetAccounts (questrade) can only succeed with an access token to
\* send and an API server to send it to
CanFetchAccounts(c) == c.accessToken # "" /\ c.apiServer # ""

\* the accounts GetAccounts returns when the balances of the accounts in
\* failed could not be fetched: those keep Balances nil
FetchedAccounts(remote, failed) ==
    [i \in 1..Len(remote) |->
        IF i \in failed THEN QAccount(remote[i].Number, FALSE, <<>>) ELSE remote[i]]

\* YNAB after it accepted a transaction: the account's balance rises by
\* the amount
Credited(remote, accountID, amount) ==
    [i \in 1..Len(remote) |->
        IF remote[i].ID = accountID
        THEN [remote[i] EXCEPT !.Balance = @ + amount]
        ELSE remote[i]]

----------------------------------------------------------------------------
(* cmd: sync *)

\* int64(x) for a float64 x given as a fraction a / b, b > 0: toward zero
Int64(a, b) == IF a >= 0 THEN a \div b ELSE 0 - ((0 - a) \div b)

\* indices of the accounts whose Number is qNum; the loop takes the first
QIndex(accs, qNum) == {i \in 1..Len(accs) : accs[i].Number = qNum}

First(S) == CHOOSE i \in S : \A j \in S : i <= j

Last(S) == CHOOSE i \in S : \A j \in S : i >= j

\* yAccountsMap[yID]: the last account of the list with that ID
YIndex(accs, yID) == {i \in 1..Len(accs) : accs[i].ID = yID}

\* the mapping entry is skipped for want of a source balance
NoSourceBalance(accs, qNum) ==
    \/ QIndex(accs, qNum) = {}
    \/ ~accs[First(QIndex(accs, qNum))].hasBalances
    \/ Len(accs[First(QIndex(accs, qNum))].CombinedBalances) = 0

\* variant: the last combined entry is taken
QBalanceOfLast(accs, qNum) ==
    accs[First(QIndex(accs, qNum))].CombinedBalances[
        Len(accs[First(QIndex(accs, qNum))].CombinedBalances)]

\* qBalance, in SubUnits
QBalance(accs, qNum) == accs[First(QIndex(accs, qNum))].CombinedBalances[1]

\* yBalance = float64(yAcc.Balance) / 1000, in SubUnits
YBalance(accs, yID) == accs[Last(YIndex(accs, yID))].Balance * SubPerMilli

\* diff = qBalance - yBalance, in SubUnits
Diff(qAccs, yAccs, qNum, yID) == QBalance(qAccs, qNum) - YBalance(yAccs, yID)

\* variant: an entry with a zero diff is planned too
IsPlannedAnyDiff(mapping, qAccs, yAccs, qNum) ==
    ~NoSourceBalance(qAccs, qNum) /\ YIndex(yAccs, mapping[qNum]) # {}

\* the mapping entry yields a planned transaction
IsPlanned(mapping, qAccs, yAccs, qNum) ==
    /\ ~NoSourceBalance(qAccs, qNum)
    /\ YIndex(yAccs, mapping[qNum]) # {}
    /\ Diff(qAccs, yAccs, qNum, mapping[qNum]) # 0

PlannedTx(mapping, qAccs, yAccs, qNum) ==
    [QNumber |-> qNum,
     YNABAccountID |-> mapping[qNum],
     OldBalance |-> YBalance(yAccs, mapping[qNum]),
     NewBalance |-> QBalance(qAccs, qNum),
     Amount |-> Diff(qAccs, yAccs, qNum, mapping[qNum])]

\* the planned transactions of a mapping, as a set
PlanEntries(mapping, qAccs, yAccs) ==
    {PlannedTx(mapping, qAccs, yAccs, qNum) :
        qNum \in {q \in DOMAIN mapping : IsPlanned(mapping, qAccs, yAccs, q)}}

\* Go ranges over a map in no fixed order: the plan is the entries in any
\* order
Orderings(S) ==
    {f \in [1..Cardinality(S) -> S] : \A i, j \in 1..Cardinality(S) : f[i] = f[j] => i = j}

\* float64: the operands <<qBalance, yBalance>>, in milliunits, among the
\* amounts of this model at which (qBalance - yBalance) * 1000 computed in
\* IEEE 754 binary64 lies just below the decimal product:
\* (2.01 - 0.0) * 1000 is 2009.9999999999998. At the model's other
\* amounts the double product truncates as the decimal one does.
Float64Short == {<<2010, 0>>}

\* tx.Amount * 1000 falls short of a whole number of milliunits
FallsShort(tx) ==
    /\ tx.NewBalance % SubPerMilli = 0
    /\ <<tx.NewBalance \div SubPerMilli, tx.OldBalance \div SubPerMilli>> \in Float64Short

\* ynabTx.Amount = int64(tx.Amount * 1000), in milliunits
TxAmount(tx) ==
    IF FallsShort(tx) THEN Int64(tx.Amount, SubPerMilli) - 1
    ELSE Int64(tx.Amount, SubPerMilli)

\* the ynab.Transaction sent for a planned transaction
YnabTx(tx) == [AccountID |-> tx.YNABAccountID, Amount |-> TxAmount(tx)]

\* variant: anything but "no" approves
ApprovedUnlessNo(resp) == ToLower(TrimSpace(resp)) # "no"

\* the approval test on what Scanln stored
Approved(resp) == ToLower(TrimSpace(resp)) = "yes"

\* lines the user may type at the approval prompt
ApprovalLines ==
    {<<>>, <<"yes">>, <<"YES">>, <<Blank, "Yes", Blank>>, <<"no">>, <<"y">>,
     <<"yes", Blank, "please">>, <<"no", Blank, "yes">>}

YnabConfigured(vp) ==
    GetString(vp, "ynab_access_token") # "" /\ GetString(vp, "ynab_budget_id") # ""

SyncLoad ==
    /\ pc = "sync_load"
    /\ LET r == loadConfig(configJson, viper)
       IN  /\ viper' = r.viper
           /\ pc' = IF r.err # "" THEN "exit1" ELSE "ensure_load"
    /\ UNCHANGED <<cmd, runs, dryRun, now, configJson, mappingsJson,
                   origRefresh, calls, authVars, remoteVars, fetchVars, afterSet, logged, syncVars>>

\* variant: the error of ensureValidQuestradeClient is not looked at
SyncProceedsAnyway(err, vp, mfile) == YnabConfigured(vp) /\ mfile.exists

\* whether sync goes on after ensureValidQuestradeClient and the checks
\* that follow it
SyncProceeds(err, vp, mfile) == err = "" /\ YnabConfigured(vp) /\ mfile.exists

SyncAfterEnsure ==
    /\ pc = "ensure_ret"
    /\ cmd = "sync"
    /\ IF SyncProceeds(ensureErr, viper, mappingsJson)
       THEN /\ accountMapping' = mappingsJson.m
            /\ pc' = "sync_qaccounts"
       ELSE /\ pc' = "exit1"
            /\ UNCHANGED accountMapping
    /\ UNCHANGED <<cmd, runs, dryRun, now, configJson, mappingsJson, viper,
                   origRefresh, calls, authVars, remoteVars, fetchVars, afterSet, logged, qAccounts,
                   yAccounts, planned, response, txi, created, selections>>

SyncGetQAccounts ==
    /\ pc = "sync_qaccounts"
    /\ calls' = Append(calls, Ev("q_accounts", qClient.accessToken))
    /\ \/ /\ pc' = "exit1"
          /\ UNCHANGED qAccounts
       \/ /\ CanFetchAccounts(qClient)
          /\ \E failed \in SUBSET (1..Len(qRemote)) :
               qAccounts' = FetchedAccounts(qRemote, failed)
          /\ pc' = IF Len(qRemote) = 0 THEN "exit1" ELSE "sync_yaccounts"
    /\ UNCHANGED <<cmd, runs, dryRun, now, configJson, mappingsJson, viper,
                   origRefresh, authVars, remoteVars, fetchVars, afterSet, logged, accountMapping,
                   yAccounts, planned, response, txi, created, selections>>

SyncGetYAccounts ==
    /\ pc = "sync_yaccounts"
    /\ calls' = Append(calls, Ev("y_accounts", ""))
    /\ \/ /\ pc' = "exit1"
          /\ UNCHANGED yAccounts
       \/ /\ yAccounts' = yRemote
          /\ pc' = "sync_plan"
    /\ UNCHANGED <<cmd, runs, dryRun, now, configJson, mappingsJson, viper,
                   origRefresh, authVars, remoteVars, fetchVars, afterSet, logged, accountMapping,
                   qAccounts, planned, response, txi, created, selections>>

\* variant: --dry-run is not looked at
SyncAfterPlanNoDry(plan, dry) == IF Len(plan) = 0 THEN "exit0" ELSE "sync_approve"

\* where sync goes once the plan is built
SyncAfterPlan(plan, dry) ==
    IF Len(plan) = 0 THEN "exit0"
    ELSE IF dry THEN "exit0"
    ELSE "sync_approve"

\* the positions of ord whose mapping entry yields a planned transaction
PlannedAt(mapping, qAccs, yAccs, ord) ==
    {i \in 1..Len(ord) : IsPlanned(mapping, qAccs, yAccs, ord[i])}

\* the k-th smallest element of a set of numbers
Nth(S, k) == CHOOSE i \in S : Cardinality({j \in S : j < i}) = k - 1

\* planned, when the loop ranges over the mapping in the order ord
PlanOf(mapping, qAccs, yAccs, ord) ==
    LET keep == PlannedAt(mapping, qAccs, yAccs, ord)
    IN  [k \in 1..Cardinality(keep) |->
            PlannedTx(mapping, qAccs, yAccs, ord[Nth(keep, k)])]

\* the positions of ord whose mapping entry is skipped with a log line:
\* no source balance, or the YNAB account is not found
SkippedAt(mapping, qAccs, yAccs, ord) ==
    {i \in 1..Len(ord) :
        \/ NoSourceBalance(qAccs, ord[i])
        \/ YIndex(yAccs, mapping[ord[i]]) = {}}

\* the log.Printf lines of the loop, in the order ord
SkipLogs(mapping, qAccs, yAccs, ord) ==
    LET skip == SkippedAt(mapping, qAccs, yAccs, ord)
    IN  [k \in 1..Cardinality(skip) |->
            IF NoSourceBalance(qAccs, ord[Nth(skip, k)])
            THEN Ev("log_skip_source", ord[Nth(skip, k)])
            ELSE Ev("log_skip_dest", ord[Nth(skip, k)])]

SyncPlan ==
    /\ pc = "sync_plan"
    /\ \E ord \in Orderings(DOMAIN accountMapping) :
         LET plan == PlanOf(accountMapping, qAccounts, yAccounts, ord)
         IN  /\ planned' = plan
             /\ calls' = calls \o SkipLogs(accountMapping, qAccounts, yAccounts, ord)
                               \o (IF Len(plan) = 0 THEN <<>>
                                   ELSE <<Ev("print_plan", "")>>)
             /\ pc' = SyncAfterPlan(plan, dryRun)
    /\ UNCHANGED <<cmd, runs, dryRun, now, configJson, mappingsJson, viper,
                   origRefresh, authVars, remoteVars, fetchVars, afterSet, logged, accountMapping,
                   qAccounts, yAccounts, response, txi, created, selections>>

SyncApprove ==
    /\ pc = "sync_approve"
    /\ \E line \in ApprovalLines :
         /\ response' = Scanln(line)
         /\ calls' = Append(calls, Ev("approve_prompt", Scanln(line)))
         /\ pc' = IF Approved(Scanln(line)) THEN "sync_create" ELSE "exit0"
    /\ txi' = 1
    /\ UNCHANGED <<cmd, runs, dryRun, now, configJson, mappingsJson, viper,
                   origRefresh, authVars, remoteVars, fetchVars, afterSet, logged, accountMapping,
                   qAccounts, yAccounts, planned, created, selections>>

SyncCreate ==
    /\ pc = "sync_create"
    /\ txi <= Len(planned)
    /\ calls' = Append(calls, Ev("create_tx", planned[txi].YNABAccountID))
    /\ \/ UNCHANGED <<yRemote, created>>
       \/ /\ yRemote' = Credited(yRemote, planned[txi].YNABAccountID,
                                 TxAmount(planned[txi]))
          /\ created' = Append(created, YnabTx(planned[txi]))
    /\ txi' = txi + 1
    /\ pc' = IF txi + 1 > Len(planned) THEN "exit0" ELSE "sync_create"
    /\ UNCHANGED <<cmd, runs, dryRun, now, configJson, mappingsJson, viper,
                   origRefresh, authVars, qRemote, fetchVars, afterSet, logged, accountMapping,
                   qAccounts, yAccounts, planned, response, selections>>

----------------------------------------------------------------------------
(* cmd: mapping list *)

MappingListLoad ==
    /\ pc = "list_load"
    /\ LET r == loadConfig(configJson, viper)
       IN  /\ viper' = r.viper
           /\ origRefresh' = GetString(r.viper, "questrade_refresh_token")
           /\ pc' = IF r.err # "" THEN "exit1" ELSE "ensure_load"
    /\ UNCHANGED <<cmd, runs, dryRun, now, configJson, mappingsJson, calls,
                   authVars, remoteVars, fetchVars, afterSet, logged, syncVars>>

\* whether mapping list / mapping set go on after
\* ensureValidQuestradeClient and the check of the YNAB values
MappingProceeds(err, vp) == err = "" /\ YnabConfigured(vp)

\* mapping list stores a refresh token that changed: viper.Set, then
\* viper.WriteConfigAs writes all of viper's settings over config.json
MappingListAfterEnsure ==
    /\ pc = "ensure_ret"
    /\ cmd = "mapping_list"
    /\ IF ~MappingProceeds(ensureErr, viper)
       THEN /\ pc' = "exit1"
            /\ UNCHANGED <<viper, configJson, calls>>
       ELSE /\ pc' = "list_qaccounts"
            /\ IF qClient.refreshToken # "" /\ qClient.refreshToken # origRefresh
               THEN \E wok \in BOOLEAN :
                      /\ viper' = Put(viper, "questrade_refresh_token",
                                      qClient.refreshToken)
                      /\ configJson' =
                           writeConfig(configJson,
                                       Put(viper, "questrade_refresh_token",
                                           qClient.refreshToken), wok)
                      /\ calls' = Append(calls, Ev("write_config",
                                                   qClient.refreshToken))
               ELSE UNCHANGED <<viper, configJson, calls>>
    /\ UNCHANGED <<cmd, runs, dryRun, now, mappingsJson, origRefresh,
                   authVars, remoteVars, fetchVars, afterSet, logged, syncVars>>

MappingListGetQAccounts ==
    /\ pc = "list_qaccounts"
    /\ calls' = Append(calls, Ev("q_accounts", qClient.accessToken))
    /\ \/ /\ pc' = "exit1"
          /\ UNCHANGED qAccounts
       \/ /\ CanFetchAccounts(qClient)
          /\ \E failed \in SUBSET (1..Len(qRemote)) :
               qAccounts' = FetchedAccounts(qRemote, failed)
          /\ pc' = "list_yaccounts"
    /\ UNCHANGED <<cmd, runs, dryRun, now, configJson, mappingsJson, viper,
                   origRefresh, authVars, remoteVars, fetchVars, afterSet, logged, accountMapping,
                   yAccounts, planned, response, txi, created, selections>>

MappingListGetYAccounts ==
    /\ pc = "list_yaccounts"
    /\ calls' = Append(calls, Ev("y_accounts", ""))
    /\ \/ /\ pc' = "exit1"
          /\ UNCHANGED <<yAccounts, accountMapping>>
       \/ /\ yAccounts' = yRemote
          /\ accountMapping' = IF mappingsJson.exists THEN mappingsJson.m
                               ELSE EmptyMap
          /\ pc' = "exit0"
    /\ UNCHANGED <<cmd, runs, dryRun, now, configJson, mappingsJson, viper,
                   origRefresh, authVars, remoteVars, fetchVars, afterSet, logged, qAccounts, planned,
                   response, txi, created, selections>>

----------------------------------------------------------------------------
(* cmd: mapping set *)

MappingSetAfterEnsure ==
    /\ pc = "ensure_ret"
    /\ cmd = "mapping_set"
    /\ pc' = IF MappingProceeds(ensureErr, viper) THEN "set_qaccounts" ELSE "exit1"
    /\ UNCHANGED <<cmd, runs, dryRun, now, configJson, mappingsJson, viper,
                   origRefresh, calls, authVars, remoteVars, fetchVars, afterSet, logged, syncVars>>

MappingSetGetQAccounts ==
    /\ pc = "set_qaccounts"
    /\ calls' = Append(calls, Ev("q_accounts", qClient.accessToken))
    /\ \/ /\ pc' = "exit1"
          /\ UNCHANGED qAccounts
       \/ /\ CanFetchAccounts(qClient)
          /\ \E failed \in SUBSET (1..Len(qRemote)) :
               qAccounts' = FetchedAccounts(qRemote, failed)
          /\ pc' = "set_yaccounts"
    /\ UNCHANGED <<cmd, runs, dryRun, now, configJson, mappingsJson, viper,
                   origRefresh, authVars, remoteVars, fetchVars, afterSet, logged, accountMapping,
                   yAccounts, planned, response, txi, created, selections>>

MappingSetGetYAccounts ==
    /\ pc = "set_yaccounts"
    /\ calls' = Append(calls, Ev("y_accounts", ""))
    /\ \/ /\ pc' = "exit1"
          /\ UNCHANGED <<yAccounts, accountMapping>>
       \/ /\ yAccounts' = yRemote
          /\ accountMapping' = EmptyMap
          /\ pc' = "set_select"
    /\ UNCHANGED <<cmd, runs, dryRun, now, configJson, mappingsJson, viper,
                   origRefresh, authVars, remoteVars, fetchVars, afterSet, logged, qAccounts, planned,
                   response, txi, created, selections>>

\* the record of one pass of the selection loop: the Questrade account
\* chosen and the YNAB account chosen for it
Selected(number, id) == [op |-> "select", tok |-> number, to |-> id]

\* one pass of the selection loop that ends in a mapping: a Questrade
\* account and a YNAB account are chosen
MappingSetSelect ==
    /\ pc = "set_select"
    /\ selections < MaxSelections
    /\ \E i \in 1..Len(qAccounts), j \in 1..Len(yAccounts) :
         /\ accountMapping' = Put(accountMapping, qAccounts[i].Number, yAccounts[j].ID)
         /\ calls' = Append(calls, Selected(qAccounts[i].Number, yAccounts[j].ID))
    /\ selections' = selections + 1
    /\ UNCHANGED <<cmd, pc, runs, dryRun, now, configJson, mappingsJson,
                   viper, origRefresh, authVars, remoteVars, fetchVars, afterSet, logged,
                   qAccounts, yAccounts, planned, response, txi, created>>

\* variant: the session's entries are added to the saved mapping
SavedMappingMerged(old, session) ==
    File([k \in (DOMAIN old.m) \cup (DOMAIN session) |->
            IF k \in DOMAIN session THEN session[k] ELSE old.m[k]])

\* os.WriteFile(mappingPath, mappingJSON, 0600): mappings.json becomes
\* the session's mapping
SavedMapping(old, session) == File(session)

\* the loop ends ('Finish mapping' or a prompt error) and the mapping is
\* written to mappings.json; a failed write ends in os.Exit(1)
MappingSetFinish ==
    /\ pc = "set_select"
    /\ calls' = Append(calls, Ev("write_mappings", ""))
    /\ \/ /\ mappingsJson' = SavedMapping(mappingsJson, accountMapping)
          /\ pc' = "exit0"
       \/ /\ pc' = "exit1"
          /\ UNCHANGED mappingsJson
    /\ UNCHANGED <<cmd, runs, dryRun, now, configJson, viper, origRefresh,
                   authVars, remoteVars, fetchVars, afterSet, logged, syncVars>>

----------------------------------------------------------------------------
(* The process *)

Commands == {"sync", "mapping_list", "mapping_set", "auth_login", "auth_set"}

\* where a command's Run function starts
Entry(c) ==
    CASE c = "sync" -> "sync_load"
      [] c = "mapping_list" -> "list_load"
      [] c = "mapping_set" -> "ensure_load"
      [] c = "auth_login" -> "login_load"
      [] c = "auth_set" -> "set_run"

\* the process has ended: it has not started, it exited, or it panicked
Exited == pc \in {"idle", "exit0", "exit1", "panic"}

\* a new process: nothing of the previous one is left but the files and
\* the remote services
Start ==
    /\ Exited
    /\ runs < MaxRuns
    /\ runs' = runs + 1
    /\ afterSet' = (cmd = "auth_set" /\ pc = "exit0")
    /\ logged' = <<>>
    /\ \E c \in Commands, dry \in BOOLEAN :
         /\ dry => c = "sync"
         /\ cmd' = c
         /\ dryRun' = dry
         /\ pc' = Entry(c)
    /\ now' = 1
    /\ viper' = EmptyMap
    /\ origRefresh' = ""
    /\ loc' = NoLocals
    /\ m' = EmptyMap
    /\ qClient' = NoClient
    /\ ensureErr' = ""
    /\ vres' = NoValidation
    /\ tr' = NoResponse
    /\ updates' = <<>>
    /\ calls' = <<>>
    /\ accountMapping' = EmptyMap
    /\ qAccounts' = <<>>
    /\ yAccounts' = <<>>
    /\ planned' = <<>>
    /\ response' = ""
    /\ txi' = 1
    /\ created' = <<>>
    /\ selections' = 0
    /\ UNCHANGED <<configJson, mappingsJson, remoteVars, fetchVars>>

\* no request for the accounts was sent
NoListing == [sent |-> FALSE, transport |-> FALSE, status |-> 0, decodes |-> FALSE]

\* no GetAccounts call is being followed goroutine by goroutine
NotFetching ==
    /\ gaPc = "idle"
    /\ accountsResp = <<>>
    /\ loopI = 0
    /\ goroutines = <<>>
    /\ wg = 0
    /\ subFailed = {}
    /\ gaRet = [err |-> "", accounts |-> <<>>]
    /\ listResp = NoListing

\* the state of a process that has not started
Fresh ==
    /\ now = 1
    /\ viper = EmptyMap
    /\ origRefresh = ""
    /\ loc = NoLocals
    /\ m = EmptyMap
    /\ qClient = NoClient
    /\ ensureErr = ""
    /\ vres = NoValidation
    /\ tr = NoResponse
    /\ updates = <<>>
    /\ calls = <<>>
    /\ accountMapping = EmptyMap
    /\ qAccounts = <<>>
    /\ yAccounts = <<>>
    /\ planned = <<>>
    /\ response = ""
    /\ txi = 1
    /\ created = <<>>
    /\ selections = 0
    /\ NotFetching
    /\ afterSet = FALSE
    /\ logged = <<>>

CompleteCache ==
    [questrade_access_token |-> "a1", questrade_api_server |-> "s1",
     questrade_expires_in |-> 2]

\* the cached part of a config.json: none, complete, without api server,
\* or with expires_in 0
CachedParts ==
    {EmptyMap,
     CompleteCache,
     [questrade_access_token |-> "a1", questrade_expires_in |-> 2],
     [questrade_access_token |-> "a1", questrade_api_server |-> "s1",
      questrade_expires_in |-> 0]}

RefreshParts == {EmptyMap, [questrade_refresh_token |-> "r1"]}

YnabParts == {EmptyMap, [ynab_access_token |-> "yt", ynab_budget_id |-> "yb"]}

Merge(f, g) == [k \in (DOMAIN f) \cup (DOMAIN g) |-> IF k \in DOMAIN g THEN g[k] ELSE f[k]]

\* the config.json files a run may find: none, one that holds null, one
\* that holds no valid JSON, an object with the YNAB values and any of
\* the Questrade parts, or one without the YNAB values
InitConfigs ==
    {NoFile, NullFile, InvalidFile,
     File(Merge([questrade_refresh_token |-> "r1"], CompleteCache))}
    \cup {File(Merge(Merge(r, c), y)) :
            r \in RefreshParts, c \in CachedParts, y \in YnabParts \ {EmptyMap}}

\* the files of the first run: mappings.json is there, or it is missing
\* beside a complete config.json
InitFiles ==
    {<<c, File([Q1 |-> "Y1"])>> : c \in InitConfigs}
    \cup {<<File(Merge(Merge([questrade_refresh_token |-> "r1"], CompleteCache),
                       [ynab_access_token |-> "yt", ynab_budget_id |-> "yb"])),
            NoFile>>}

Init ==
    /\ cmd = "none"
    /\ pc = "idle"
    /\ runs = 0
    /\ dryRun = FALSE
    /\ \E f \in InitFiles : configJson = f[1] /\ mappingsJson = f[2]
    /\ qRemote = <<QAccount("Q1", TRUE, <<3 * SubPerMilli>>)>>
    /\ yRemote = <<YAccount("Y1", 1)>>
    /\ Fresh

Next ==
    \/ Start
    \/ AuthSet
    \/ EnsureLoad
    \/ EnsurePrompt
    \/ EnsureClient
    \/ EnsureValidate
    \/ EnsureRefresh
    \/ EnsureRecover
    \/ EnsureRetry
    \/ AuthLoginLoad
    \/ AuthLoginPrompt
    \/ AuthLoginClient
    \/ AuthLoginValidate
    \/ AuthLoginRefresh
    \/ AuthLoginRecover
    \/ AuthLoginRetry
    \/ SyncLoad
    \/ SyncAfterEnsure
    \/ SyncGetQAccounts
    \/ SyncGetYAccounts
    \/ SyncPlan
    \/ SyncApprove
    \/ SyncCreate
    \/ MappingListLoad
    \/ MappingListAfterEnsure
    \/ MappingListGetQAccounts
    \/ MappingListGetYAccounts
    \/ MappingSetAfterEnsure
    \/ MappingSetGetQAccounts
    \/ MappingSetGetYAccounts
    \/ MappingSetSelect
    \/ MappingSetFinish

Spec == Init /\ [][Next]_vars

----------------------------------------------------------------------------
(* sync on its own: the command from the return of                         *)
(* ensureValidQuestradeClient on, over a range of accounts, balances and   *)
(* mappings. The three ways in are states of Spec: the cached token was    *)
(* validated; the token prompt was left empty; config.json holds no YNAB   *)
(* values.                                                                 *)

YnabPart == [ynab_access_token |-> "yt", ynab_budget_id |-> "yb"]

ValidatedConfig ==
    Merge(Merge([questrade_refresh_token |-> "r1"], CompleteCache), YnabPart)

NoYnabConfig == Merge([questrade_refresh_token |-> "r1"], CompleteCache)

TokenValid == [called |-> TRUE, valid |-> TRUE, err |-> "",
               resp |-> [transport |-> TRUE, status |-> 200, body |-> <<"ok">>]]

\* <<config.json, ensureErr, client, calls, clock, vres>> at "ensure_ret"
SyncEntries ==
    {<<ValidatedConfig, "", LoadedClient(LoadedLocals(ValidatedConfig), 1),
       <<Ev("validate", "a1")>>, After(1), TokenValid>>,
     <<YnabPart, "no refresh token provided", NoClient, <<Ev("prompt", "")>>, 1,
       NoValidation>>,
     <<NoYnabConfig, "", LoadedClient(LoadedLocals(NoYnabConfig), 1),
       <<Ev("validate", "a1")>>, After(1), TokenValid>>}

\* totalEquity values: half a milliunit, one milliunit, two milliunits,
\* and 2.01 (2010 milliunits)
EquityVals == {SubPerMilli \div 2, SubPerMilli, 2 * SubPerMilli, 2010 * SubPerMilli}

SyncQRemotes ==
    {<<>>}
    \cup {<<QAccount("Q1", TRUE, c1), QAccount("Q2", TRUE, <<e2>>)>> :
            c1 \in {<<>>, <<SubPerMilli, 2 * SubPerMilli>>}
                     \cup {<<e>> : e \in EquityVals},
            e2 \in {SubPerMilli, 2 * SubPerMilli}}

SyncYRemotes == {<<YAccount("Y1", b), YAccount("Y2", 0)>> : b \in {0, 2}}

\* mappings.json: Q1 and Q2 mapped to Y1, Y2 or the unknown Y9, or not
\* mapped; the unknown Q9 mapped to Y1 or not mapped
SyncMappings ==
    {mp \in UNION {[S -> {"Y1", "Y2", "Y9"}] : S \in SUBSET {"Q1", "Q2", "Q9"}} :
        "Q9" \in DOMAIN mp => mp["Q9"] = "Y1"}

SyncInit ==
    /\ cmd = "sync"
    /\ pc = "ensure_ret"
    /\ runs = 1
    /\ dryRun \in BOOLEAN
    /\ \E e \in SyncEntries :
         /\ configJson = File(e[1])
         /\ viper = e[1]
         /\ loc = LoadedLocals(e[1])
         /\ ensureErr = e[2]
         /\ vres = e[6]
         /\ qClient = e[3]
         /\ calls = e[4]
         /\ now = e[5]
    /\ mappingsJson \in {NoFile} \cup {File(mp) : mp \in SyncMappings}
    /\ qRemote \in SyncQRemotes
    /\ yRemote \in SyncYRemotes
    /\ origRefresh = ""
    /\ m = EmptyMap
    /\ tr = NoResponse
    /\ updates = <<>>
    /\ accountMapping = EmptyMap
    /\ qAccounts = <<>>
    /\ yAccounts = <<>>
    /\ planned = <<>>
    /\ response = ""
    /\ txi = 1
    /\ created = <<>>
    /\ selections = 0
    /\ NotFetching
    /\ afterSet = FALSE
    /\ logged = <<>>

SyncNext ==
    \/ SyncAfterEnsure
    \/ SyncGetQAccounts
    \/ SyncGetYAccounts
    \/ SyncPlan
    \/ SyncApprove
    \/ SyncCreate

SyncSpec == SyncInit /\ [][SyncNext]_vars

----------------------------------------------------------------------------
(* Client.GetAccounts goroutine by goroutine: the listing request, the     *)
(* loop that starts one goroutine per account, the goroutines' balance     *)
(* requests and stores in any interleaving, and wg.Wait().                 *)

\* accounts the listing request may return
MaxAccounts == 3

\* everything but the state of the GetAccounts call
procVars == <<cmd, pc, runs, dryRun, now, configJson, mappingsJson, viper,
              origRefresh, calls, authVars, remoteVars, syncVars, afterSet,
              logged>>

AccountNumber(k) ==
    CASE k = 1 -> "Q1"
      [] k = 2 -> "Q2"
      [] k = 3 -> "Q3"
      [] OTHER -> "Q4"

\* the accounts Questrade serves: account k has a total equity of k
\* milliunits, and the second account has no combined balances
ServedAccounts(n) ==
    [k \in 1..n |->
        QAccount(AccountNumber(k), TRUE,
                 IF k = 2 THEN <<>> ELSE <<k * SubPerMilli>>)]

\* the accounts in the reverse order
Reversed(accs) == [k \in 1..Len(accs) |-> accs[Len(accs) + 1 - k]]

\* the body of GET v1/accounts: the accounts in the served order, Balances
\* is not part of the JSON (json:"-")
Listing(remote) ==
    [k \in 1..Len(remote) |-> QAccount(remote[k].Number, FALSE, <<>>)]

\* the body of GET v1/accounts/<number>/balances
ServedBalances(remote, number) == remote[First(QIndex(remote, number))].CombinedBalances

\* a goroutine that has not been started
NoGoroutine == [pc |-> "none", idx |-> 0, number |-> "", sent |-> 0,
                balances |-> <<>>, wrote |-> 0]

\* variant: every goroutine is handed the first index
GoArgFirst(i) == 1

\* the argument of go func(idx int){...}(i): the value i has when the
\* goroutine is started
GoArg(i) == i

AccountsInit ==
    /\ cmd = "sync"
    /\ pc = "sync_qaccounts"
    /\ runs = 1
    /\ dryRun = FALSE
    /\ now = After(1)
    /\ configJson = File(ValidatedConfig)
    /\ mappingsJson = File([Q1 |-> "Y1"])
    /\ viper = ValidatedConfig
    /\ origRefresh = ""
    /\ loc = LoadedLocals(ValidatedConfig)
    /\ m = EmptyMap
    /\ qClient \in {LoadedClient(LoadedLocals(ValidatedConfig), 1), NewClient("r1")}
    /\ ensureErr = ""
    /\ vres = TokenValid
    /\ tr = NoResponse
    /\ updates = <<>>
    /\ calls = <<Ev("validate", "a1")>>
    /\ \E n \in 0..MaxAccounts :
         qRemote \in {ServedAccounts(n), Reversed(ServedAccounts(n))}
    /\ yRemote = <<YAccount("Y1", 1)>>
    /\ accountMapping = [Q1 |-> "Y1"]
    /\ qAccounts = <<>>
    /\ yAccounts = <<>>
    /\ planned = <<>>
    /\ response = ""
    /\ txi = 1
    /\ created = <<>>
    /\ selections = 0
    /\ gaPc = "call"
    /\ accountsResp = <<>>
    /\ loopI = 0
    /\ goroutines = <<>>
    /\ wg = 0
    /\ subFailed = {}
    /\ gaRet = [err |-> "", accounts |-> <<>>]
    /\ listResp = NoListing
    /\ afterSet = FALSE
    /\ logged = <<>>

\* what GET v1/accounts may answer: no answer at all, or a status with a
\* body that json.Unmarshal accepts or rejects
ListingStatuses == {200, 401, 500}

ListingResponses ==
    {[sent |-> TRUE, transport |-> FALSE, status |-> 0, decodes |-> FALSE]}
    \cup {[sent |-> TRUE, transport |-> TRUE, status |-> s, decodes |-> d] :
            s \in ListingStatuses, d \in BOOLEAN}

\* the error GetAccounts builds from the answer to the listing request; an
\* error is modelled by the format that built it, "" is nil
ListingError(resp) ==
    IF ~resp.transport THEN "failed to make request"
    ELSE IF resp.status # 200 THEN "API returned status"
    ELSE IF ~resp.decodes THEN "failed to parse accounts response"
    ELSE ""

\* the check of the access token, the listing request and wg.Add
GetAccountsList ==
    /\ gaPc = "call"
    /\ \/ /\ qClient.accessToken = ""
          /\ gaRet' = [err |-> "not authenticated, call Refresh first", accounts |-> <<>>]
          /\ gaPc' = "returned"
          /\ UNCHANGED <<accountsResp, loopI, goroutines, wg, listResp>>
       \/ /\ qClient.accessToken # ""
          /\ \E resp \in ListingResponses :
               /\ ListingError(resp) # ""
               /\ listResp' = resp
               /\ gaRet' = [err |-> ListingError(resp), accounts |-> <<>>]
          /\ gaPc' = "returned"
          /\ UNCHANGED <<accountsResp, loopI, goroutines, wg>>
       \/ /\ qClient.accessToken # ""
          /\ \E resp \in ListingResponses :
               /\ ListingError(resp) = ""
               /\ listResp' = resp
          /\ accountsResp' = Listing(qRemote)
          /\ goroutines' = [k \in 1..Len(qRemote) |-> NoGoroutine]
          /\ wg' = Len(qRemote)
          /\ loopI' = 1
          /\ gaPc' = "spawn"
          /\ UNCHANGED gaRet
    /\ UNCHANGED <<subFailed, procVars>>

\* one pass of `for i := range accountsResp.Accounts`: go func(idx int){...}(i)
GetAccountsSpawn ==
    /\ gaPc = "spawn"
    /\ IF loopI > Len(accountsResp)
       THEN /\ gaPc' = "wait"
            /\ UNCHANGED <<goroutines, loopI>>
       ELSE /\ goroutines' = [goroutines EXCEPT ![loopI].pc = "request",
                                               ![loopI].idx = GoArg(loopI)]
            /\ loopI' = loopI + 1
            /\ UNCHANGED gaPc
    /\ UNCHANGED <<accountsResp, wg, subFailed, gaRet, listResp, procVars>>

\* the k-th goroutine reads accountsResp.Accounts[idx].Number and sends
\* the balance request for it
GoRequest(k) ==
    /\ goroutines[k].pc = "request"
    /\ goroutines' =
         [goroutines EXCEPT ![k].pc = "response",
                            ![k].number = accountsResp[goroutines[k].idx].Number,
                            ![k].sent = @ + 1]
    /\ UNCHANGED <<gaPc, accountsResp, loopI, wg, subFailed, gaRet, listResp, procVars>>

\* variant: a goroutine whose request failed sends it again
AfterFailedRetries == "request"

\* where a goroutine goes when its request has failed: the warning is
\* logged and the function returns
AfterFailed == "done"

\* GetAccountBalancesByID returns to the k-th goroutine: an error (logged,
\* then the deferred wg.Done) or the balances of the number asked for
GoResponse(k) ==
    /\ goroutines[k].pc = "response"
    /\ \/ /\ goroutines' = [goroutines EXCEPT ![k].pc = AfterFailed]
          /\ subFailed' = subFailed \cup {goroutines[k].idx}
          /\ wg' = wg - 1
       \/ /\ goroutines' =
               [goroutines EXCEPT ![k].pc = "store",
                                  ![k].balances =
                                      ServedBalances(qRemote, goroutines[k].number)]
          /\ UNCHANGED <<subFailed, wg>>
    /\ UNCHANGED <<gaPc, accountsResp, loopI, gaRet, listResp, procVars>>

\* accountsResp.Accounts[idx].Balances = balances, then the deferred wg.Done
GoStore(k) ==
    /\ goroutines[k].pc = "store"
    /\ accountsResp' =
         [accountsResp EXCEPT ![goroutines[k].idx] =
             QAccount(@.Number, TRUE, goroutines[k].balances)]
    /\ goroutines' = [goroutines EXCEPT ![k].pc = "done",
                                        ![k].wrote = goroutines[k].idx]
    /\ wg' = wg - 1
    /\ UNCHANGED <<gaPc, loopI, subFailed, gaRet, listResp, procVars>>

\* variant: GetAccounts returns without waiting for the goroutines
WaitSkipped(counter) == TRUE

\* wg.Wait() returns
WaitOver(counter) == counter = 0

GetAccountsReturn ==
    /\ gaPc = "wait"
    /\ WaitOver(wg)
    /\ gaRet' = [err |-> "", accounts |-> accountsResp]
    /\ gaPc' = "returned"
    /\ UNCHANGED <<accountsResp, loopI, goroutines, wg, subFailed, listResp, procVars>>

AccountsNext ==
    \/ GetAccountsList
    \/ GetAccountsSpawn
    \/ \E k \in 1..Len(goroutines) : GoRequest(k)
    \/ \E k \in 1..Len(goroutines) : GoResponse(k)
    \/ \E k \in 1..Len(goroutines) : GoStore(k)
    \/ GetAccountsReturn

AccountsSpec == AccountsInit /\ [][AccountsNext]_vars

----------------------------------------------------------------------------
(* One invocation of the lifecycle manager, from the start of its command *)
(* to the return of ensureValidQuestradeClient or the exit of auth login. *)
(* Every step is taken once it can be: the HTTP client gives up after its *)
(* timeout, and a prompt is answered (possibly with an empty line).       *)

LifecycleInit ==
    /\ cmd \in Lifecycle \cup {"auth_login"}
    /\ pc = Entry(cmd)
    /\ runs = 1
    /\ dryRun = FALSE
    /\ \E f \in InitFiles : configJson = f[1] /\ mappingsJson = f[2]
    /\ qRemote = <<QAccount("Q1", TRUE, <<3 * SubPerMilli>>)>>
    /\ yRemote = <<YAccount("Y1", 1)>>
    /\ Fresh

LifecycleNext ==
    \/ SyncLoad
    \/ MappingListLoad
    \/ EnsureLoad
    \/ EnsurePrompt
    \/ EnsureClient
    \/ EnsureValidate
    \/ EnsureRefresh
    \/ EnsureRecover
    \/ EnsureRetry
    \/ AuthLoginLoad
    \/ AuthLoginPrompt
    \/ AuthLoginClient
    \/ AuthLoginValidate
    \/ AuthLoginRefresh
    \/ AuthLoginRecover
    \/ AuthLoginRetry

LifecycleSpec == LifecycleInit /\ [][LifecycleNext]_vars /\ WF_vars(LifecycleNext)

----------------------------------------------------------------------------
(* One `mapping set` session, from the fetch of the YNAB accounts to the   *)
(* write of mappings.json, with two accounts on either side.               *)

SetQAccounts ==
    <<QAccount("Q1", TRUE, <<SubPerMilli>>), QAccount("Q2", TRUE, <<2 * SubPerMilli>>)>>

SetYRemote == <<YAccount("Y1", 0), YAccount("Y2", 2)>>

\* the mappings.json of an earlier session
SetSavedMappings ==
    {NoFile, File([Q1 |-> "Y2"]), File([Q2 |-> "Y1"]), File([Q9 |-> "Y1"])}

MappingSetInit ==
    /\ cmd = "mapping_set"
    /\ pc = "set_yaccounts"
    /\ runs = 1
    /\ dryRun = FALSE
    /\ now = After(1)
    /\ configJson = File(ValidatedConfig)
    /\ viper = ValidatedConfig
    /\ loc = LoadedLocals(ValidatedConfig)
    /\ ensureErr = ""
    /\ vres = TokenValid
    /\ qClient = LoadedClient(LoadedLocals(ValidatedConfig), 1)
    /\ calls = <<Ev("validate", "a1"), Ev("q_accounts", "a1")>>
    /\ mappingsJson \in SetSavedMappings
    /\ qRemote = SetQAccounts
    /\ yRemote = SetYRemote
    /\ origRefresh = ""
    /\ m = EmptyMap
    /\ tr = NoResponse
    /\ updates = <<>>
    /\ accountMapping = EmptyMap
    /\ qAccounts = SetQAccounts
    /\ yAccounts = <<>>
    /\ planned = <<>>
    /\ response = ""
    /\ txi = 1
    /\ created = <<>>
    /\ selections = 0
    /\ NotFetching
    /\ afterSet = FALSE
    /\ logged = <<>>

MappingSetNext ==
    \/ MappingSetGetYAccounts
    \/ MappingSetSelect
    \/ MappingSetFinish

MappingSetSpec == MappingSetInit /\ [][MappingSetNext]_vars

----------------------------------------------------------------------------
(* Properties *)

\* positions in calls of the events of one kind
Idx(op) == {i \in 1..Len(calls) : calls[i].op = op}

\* the values the command loaded from the config hold a complete cached
\* token
CachedLoaded == loc.accessToken # "" /\ loc.apiServer # "" /\ loc.expiresIn > 0

\* C1: in ensureValidQuestradeClient and in auth login, when the loaded
\* config holds a non-empty access token, a non-empty API server and a
\* positive expires_in, every refresh request comes after the validation
\* request, and a validation that reported the token valid is followed by
\* no refresh request at all.
C1_ValidateBeforeRefresh ==
    /\ (CachedLoaded /\ Idx("refresh") # {}) =>
          /\ Idx("validate") # {}
          /\ First(Idx("validate")) < First(Idx("refresh"))
    /\ (vres.called /\ vres.valid /\ vres.err = "") => Idx("refresh") = {}

\* a cached token was validated, found invalid, and refreshed
C1_Witness ==
    /\ CachedLoaded
    /\ vres.called
    /\ ~vres.valid
    /\ vres.err = ""
    /\ Idx("refresh") # {}
    /\ cmd \in Lifecycle

\* C2: when the validation of a cached token fails without a verdict
\* (transport failure, or a status that is neither 200 nor a 401 naming an
\* invalid token), the error is surfaced: no refresh request is made, no
\* prompt follows, and the credential in memory and on disk stays as it was.
C2_ValidationErrorSurfaced ==
    (vres.called /\ vres.err # "") =>
        /\ Idx("refresh") = {}
        /\ \A i \in Idx("prompt") : i < First(Idx("validate"))
        /\ qClient.accessToken = loc.accessToken
        /\ GetString(configJson.m, "questrade_access_token") = loc.accessToken

\* the refresh requests that failed: each is followed by its failure report
FailedRefreshes == Idx("refresh_failed")

\* the invocation has ended in its fatal error
FatalError ==
    \/ cmd \in Lifecycle /\ ensureErr # "" /\ pc \in {"ensure_ret", "exit1"}
    \/ cmd = "auth_login" /\ pc = "exit1"

\* C3: once two refresh requests of one invocation have failed (the first
\* one and the one made with the token entered at the recovery prompt), the
\* invocation is in its fatal error, and nothing follows the second
\* failure: no third refresh, no further prompt.
C3_TwoFailuresFatal ==
    Cardinality(FailedRefreshes) >= 2 =>
        /\ Cardinality(FailedRefreshes) = 2
        /\ Cardinality(Idx("refresh")) = 2
        /\ Last(FailedRefreshes) = Len(calls)
        /\ \A i \in Idx("prompt") : i < Last(FailedRefreshes)
        /\ FatalError

\* sync has exited after its second refresh failed
C3_Witness ==
    /\ Cardinality(FailedRefreshes) = 2
    /\ cmd = "sync"
    /\ pc = "exit1"
    /\ ensureErr = "failed to refresh with provided token"

\* a credential a request can be made with at time t
Usable(c, t) == c.accessToken # "" /\ c.apiServer # "" /\ c.expiresAt > t

\* ensureValidQuestradeClient has returned a client and a nil error
EnsureReturnedClient == cmd \in Lifecycle /\ pc = "ensure_ret" /\ ensureErr = ""

\* C4: when ensureValidQuestradeClient returns a client without error, the
\* client holds a non-empty access token, a non-empty API server and an
\* expiry in the future.
C4_ReturnedClientUsable == EnsureReturnedClient => Usable(qClient, now)

\* the command has just come back from a successful refresh whose
\* updateConfigJSON call wrote the file
RefreshedAndWritten ==
    /\ \/ EnsureReturnedClient
       \/ cmd = "auth_login" /\ pc = "exit0"
    /\ tr # NoResponse
    /\ updates # <<>>
    /\ updates[Len(updates)].ok

\* C5: after a successful refresh whose config write succeeded,
\* config.json holds the client's refresh token, access token and API
\* server, and the response's expires_in.
C5_PersistedEqualsClient ==
    RefreshedAndWritten =>
        /\ configJson.exists
        /\ GetString(configJson.m, "questrade_refresh_token") = qClient.refreshToken
        /\ GetString(configJson.m, "questrade_access_token") = qClient.accessToken
        /\ GetString(configJson.m, "questrade_api_server") = qClient.apiServer
        /\ GetInt(configJson.m, "questrade_expires_in") = tr.expires_in

\* C6: every successful refresh, in ensureValidQuestradeClient and in auth
\* login, first attempt or retry, is followed before the return by one
\* updateConfigJSON call that passes the response's refresh token, access
\* token, API server and expires_in.
C6_RefreshThenPersist ==
    tr # NoResponse =>
        /\ updates # <<>>
        /\ updates[Len(updates)].refreshToken = tr.refresh_token
        /\ updates[Len(updates)].accessToken = tr.access_token
        /\ updates[Len(updates)].apiServer = tr.api_server
        /\ updates[Len(updates)].expiresIn = tr.expires_in
        /\ Idx("update") # {}
        /\ Last(Idx("update")) = Last(Idx("refresh")) + 1
        /\ Idx("refresh_failed") \cap {Last(Idx("refresh")) + 1} = {}

\* mapping set has come back from a refresh that succeeded on the retry
C6_Witness ==
    /\ cmd = "mapping_set"
    /\ EnsureReturnedClient
    /\ tr # NoResponse
    /\ Cardinality(Idx("refresh")) = 2
    /\ Len(updates) = 2

\* the requests and writes a command makes once it has its client
AfterEnsureOps == {"q_accounts", "y_accounts", "create_tx", "write_mappings"}

\* C7: in sync, mapping list and mapping set, when
\* ensureValidQuestradeClient returns an error the command ends without a
\* Questrade GetAccounts request, without a YNAB request and without a write
\* of the mappings file; any of these happens only after a return without
\* error.
C7_NothingAfterEnsureError ==
    /\ (cmd \in Lifecycle /\ ensureErr # "") =>
          /\ pc \in {"ensure_ret", "exit1"}
          /\ \A i \in 1..Len(calls) : calls[i].op \notin AfterEnsureOps
    /\ (\E i \in 1..Len(calls) : calls[i].op \in AfterEnsureOps) =>
          /\ cmd \in Lifecycle
          /\ ensureErr = ""
          /\ qClient # NoClient

\* mapping list has exited on the error of ensureValidQuestradeClient
C7_Witness ==
    /\ cmd = "mapping_list"
    /\ ensureErr # ""
    /\ pc = "exit1"
    /\ Idx("prompt") # {}

C9_DryRunCreatesNothing ==
    dryRun =>
        /\ Idx("create_tx") = {}
        /\ Idx("approve_prompt") = {}
        /\ created = <<>>
        /\ pc \notin {"sync_approve", "sync_create"}

\* a dry run has printed a plan of two transactions and ended
C9_Witness ==
    /\ dryRun
    /\ Len(planned) = 2
    /\ Idx("print_plan") # {}
    /\ pc = "exit0"

\* an approved run has ended with every planned transaction created
AllCreated ==
    /\ pc = "exit0"
    /\ planned # <<>>
    /\ Len(created) = Len(planned)

\* C10: after an approved sync run in which every planned transaction was
\* created, a second run over the same Questrade balances and the YNAB
\* balances the first run left behind plans nothing.
C10_SecondRunPlansNothing ==
    AllCreated => PlanEntries(accountMapping, qAccounts, yRemote) = {}

\* the listing request of GetAccounts was answered with the accounts
Listed == loopI >= 1

\* C11: when the listing request returned N accounts, then whatever subset
\* of the balance requests fails and however the goroutines interleave,
\* GetAccounts returns no error and N accounts in the order of the
\* listing; entry i has Balances unset exactly when the request for
\* account i failed, and otherwise holds the balances served for the
\* number of account i.
C11_PartialFailureKeepsSlots ==
    (gaPc = "returned" /\ Listed) =>
        /\ gaRet.err = ""
        /\ Len(gaRet.accounts) = Len(qRemote)
        /\ \A k \in 1..Len(qRemote) :
             /\ gaRet.accounts[k].Number = qRemote[k].Number
             /\ gaRet.accounts[k].hasBalances <=> k \notin subFailed
             /\ k \notin subFailed =>
                  gaRet.accounts[k].CombinedBalances = qRemote[k].CombinedBalances
        /\ gaRet.accounts = FetchedAccounts(qRemote, subFailed)

\* three accounts were listed and only the request for the second failed
C11_Witness ==
    /\ gaPc = "returned"
    /\ Len(gaRet.accounts) = 3
    /\ subFailed = {2}
    /\ gaRet.accounts[1].hasBalances
    /\ gaRet.accounts[3].hasBalances

\* the refresh token the last Refresh call sent, i.e. the one the client
\* held before the call
SentRefreshToken == calls[Last(Idx("refresh"))].tok

\* C12: after a successful Refresh the client's access token and API
\* server are the response's, expiresAt is the clock reading Refresh took
\* plus expires_in, and the refresh token is the response's when that is
\* non-empty and otherwise the one held before the call.
C12_RefreshUpdatesClient ==
    tr # NoResponse =>
        /\ qClient.accessToken = tr.access_token
        /\ qClient.apiServer = tr.api_server
        /\ qClient.expiresAt = now + tr.expires_in
        /\ tr.refresh_token # "" => qClient.refreshToken = tr.refresh_token
        /\ tr.refresh_token = "" => qClient.refreshToken = SentRefreshToken

\* a refresh succeeded whose response carried no refresh_token
C12_Witness ==
    /\ tr # NoResponse
    /\ tr.refresh_token = ""
    /\ qClient.refreshToken = "r1"
    /\ qClient.accessToken = "a2"

\* the events of calls that are requests to a remote service
NetworkOps == {"validate", "refresh", "q_accounts", "y_accounts", "create_tx"}

\* C13: when the loaded credential lacks an access token, an API server or
\* a positive expires_in, no validation request is made and the first
\* request of the invocation to a remote service is the refresh request.
C13_NoCacheGoesToRefresh ==
    (cmd # "none" /\ ~CachedLoaded) =>
        /\ Idx("validate") = {}
        /\ \A i \in 1..Len(calls) :
             calls[i].op \in NetworkOps => Idx("refresh") # {} /\ First(Idx("refresh")) <= i

\* a config with an access token but expires_in 0 went straight to refresh
C13_Witness ==
    /\ loc.accessToken = "a1"
    /\ loc.apiServer = "s1"
    /\ loc.expiresIn = 0
    /\ Idx("refresh") # {}
    /\ cmd = "auth_login"

\* no refresh token was stored and nothing was entered at the initial
\* prompt: the prompt is the first I/O of the invocation
EmptyInitialPrompt == Len(calls) >= 1 /\ calls[1] = Ev("prompt", "")

\* C14: when no refresh token is stored and the user enters nothing at the
\* initial prompt, the invocation fails with a missing-credential error and
\* makes no refresh request, in ensureValidQuestradeClient and in auth
\* login alike.
C14_EmptyInitialPromptFails ==
    EmptyInitialPrompt =>
        /\ Idx("refresh") = {}
        /\ pc \in {"ensure_ret", "exit1"}
        /\ cmd \in Lifecycle => ensureErr = "no refresh token provided"

\* a step in which nothing is entered at the recovery prompt
EmptyRecoveryStep ==
    /\ pc \in {"ensure_recover", "login_recover"}
    /\ calls' = Append(calls, Ev("prompt", ""))

\* such a step leaves the credential alone and ends the invocation
EmptyRecoveryStepEnds ==
    EmptyRecoveryStep =>
        /\ configJson' = configJson
        /\ qClient' = qClient
        /\ loc' = loc
        /\ m' = m
        /\ viper' = viper
        /\ pc' \in {"ensure_ret", "exit1"}
        /\ cmd \in Lifecycle => ensureErr' = "no refresh token provided"

\* nothing was entered at a prompt that followed a failed refresh
EmptyRecoveryDone ==
    \E i \in Idx("prompt"), j \in Idx("refresh_failed") : j < i /\ calls[i].tok = ""

\* after it there was no second refresh and nothing else
EmptyRecoveryIsLast ==
    EmptyRecoveryDone =>
        /\ Cardinality(Idx("refresh")) = 1
        /\ calls[Len(calls)] = Ev("prompt", "")
        /\ FatalError

\* C15: empty input at the recovery prompt ends the invocation in the
\* missing-credential failure: the step leaves the refresh token in memory
\* and config.json as they were, and no second refresh request follows.
C15_EmptyRecoveryIsFatal == [][EmptyRecoveryStepEnds]_vars /\ []EmptyRecoveryIsLast

\* auth login exited after an empty recovery prompt
C15_Witness ==
    /\ EmptyRecoveryDone
    /\ cmd = "auth_login"
    /\ pc = "exit1"
    /\ GetString(configJson.m, "questrade_refresh_token") = "r1"

\* positions of the recovery prompts that got a token
RecoveryEntries ==
    {i \in Idx("prompt") :
        calls[i].tok # "" /\ \E j \in Idx("refresh_failed") : j < i}

\* the refresh requests made after position i
RefreshesAfter(i) == {k \in Idx("refresh") : k > i}

\* the invocation is between the recovery prompt and its retry
BeforeRetry == pc \in {"ensure_retry", "login_retry"}

\* C16: a token entered at the recovery prompt is written to config.json
\* as the refresh token before the retry (ensureValidQuestradeClient:
\* updateConfigJSON, auth login: writeConfig; a write that succeeds leaves
\* it in the file), and the retry is one refresh request, which carries
\* the entered token.
C16_RecoveryPersistsThenRetries ==
    \A i \in RecoveryEntries :
        /\ Len(calls) > i
        /\ calls[i + 1].op \in {"update", "write_config"}
        /\ calls[i + 1].tok = calls[i].tok
        /\ \A k \in RefreshesAfter(i) : k > i + 1 /\ calls[k].tok = calls[i].tok
        /\ Cardinality(RefreshesAfter(i)) = IF BeforeRetry THEN 0 ELSE 1
        /\ (pc = "ensure_retry" /\ updates[Len(updates)].ok) =>
              GetString(configJson.m, "questrade_refresh_token") = calls[i].tok
        /\ pc = "login_retry" =>
              GetString(m, "questrade_refresh_token") = calls[i].tok

\* mapping list retried with the entered token r2 after r1 had failed
C16_Witness ==
    /\ cmd = "mapping_list"
    /\ RecoveryEntries # {}
    /\ Cardinality(Idx("refresh")) = 2
    /\ calls[First(Idx("refresh"))].tok = "r1"
    /\ calls[Last(Idx("refresh"))].tok = "r2"

\* C17: when the write of config.json fails after a successful refresh,
\* ensureValidQuestradeClient still returns without error the client that
\* holds the refreshed credential.
C17_PersistFailureIsWarning ==
    (cmd \in Lifecycle /\ tr # NoResponse /\ ~updates[Len(updates)].ok) =>
        /\ ensureErr = ""
        /\ pc \notin {"ensure_refresh", "ensure_recover", "ensure_retry"}
        /\ qClient.accessToken = tr.access_token
        /\ qClient.apiServer = tr.api_server
        /\ qClient.expiresAt = now + tr.expires_in

\* sync got its client from a refresh whose write failed, and went on
C17_Witness ==
    /\ cmd = "sync"
    /\ tr # NoResponse
    /\ ~updates[Len(updates)].ok
    /\ Idx("q_accounts") # {}
    /\ qClient.accessToken = "a2"

\* sync has built its plan
PlanBuilt == cmd = "sync" /\ pc \in {"sync_approve", "sync_create", "exit0"}

\* the first fetched Questrade account with the number q, if any
SourceFound(q) == \E i \in 1..Len(qAccounts) : qAccounts[i].Number = q

SourceOf(q) ==
    qAccounts[CHOOSE i \in 1..Len(qAccounts) :
                 /\ qAccounts[i].Number = q
                 /\ \A j \in 1..(i - 1) : qAccounts[j].Number # q]

\* the fetched YNAB account with the ID y, if any
DestFound(y) == \E k \in 1..Len(yAccounts) : yAccounts[k].ID = y

DestOf(y) == yAccounts[CHOOSE k \in 1..Len(yAccounts) : yAccounts[k].ID = y]

\* the conditions under which the entry of q belongs to the plan: source
\* found with balances and a combined entry, destination found, and the
\* equity (SubUnits) different from the balance (milliunits) / 1000
BelongsToPlan(q) ==
    /\ SourceFound(q)
    /\ SourceOf(q).hasBalances
    /\ Len(SourceOf(q).CombinedBalances) >= 1
    /\ DestFound(accountMapping[q])
    /\ SourceOf(q).CombinedBalances[1] # DestOf(accountMapping[q]).Balance * SubPerMilli

\* C18: a mapping entry is in sync's plan if and only if its source
\* account is found, has balances with at least one combined entry, its
\* destination account is found, and the source's total equity differs
\* from the destination's balance / 1000; a pair of equal amounts is left
\* out. Each entry is planned at most once.
C18_PlanMembership ==
    PlanBuilt =>
        /\ {planned[i].QNumber : i \in 1..Len(planned)}
               = {q \in DOMAIN accountMapping : BelongsToPlan(q)}
        /\ \A i, j \in 1..Len(planned) :
               planned[i].QNumber = planned[j].QNumber => i = j

\* Q1 and Y1 hold equal amounts and are left out, Q2 is planned
C18_Witness ==
    /\ PlanBuilt
    /\ DOMAIN accountMapping = {"Q1", "Q2"}
    /\ accountMapping["Q1"] = "Y1"
    /\ SourceFound("Q1")
    /\ SourceOf("Q1").CombinedBalances = <<2 * SubPerMilli>>
    /\ DestOf("Y1").Balance = 2
    /\ Len(planned) = 1
    /\ planned[1].QNumber = "Q2"

\* C19: every planned transaction has as current balance the
\* destination's balance / 1000, as new balance the total equity of the
\* source's first combined entry, and as delta the new balance minus the
\* current one.
C19_PlanAmounts ==
    PlanBuilt =>
        \A i \in 1..Len(planned) :
            /\ planned[i].YNABAccountID = accountMapping[planned[i].QNumber]
            /\ planned[i].OldBalance =
                   DestOf(planned[i].YNABAccountID).Balance * SubPerMilli
            /\ planned[i].NewBalance = SourceOf(planned[i].QNumber).CombinedBalances[1]
            /\ planned[i].Amount = planned[i].NewBalance - planned[i].OldBalance

\* a source with two combined entries was planned against a balance of 2
\* milliunits: current 2, new 1, delta -1 (in milliunits)
C19_Witness ==
    /\ PlanBuilt
    /\ Len(planned) >= 1
    /\ Len(SourceOf(planned[1].QNumber).CombinedBalances) = 2
    /\ planned[1].OldBalance = 2 * SubPerMilli
    /\ planned[1].NewBalance = SubPerMilli
    /\ planned[1].Amount = 0 - SubPerMilli

\* the mapping entries that are skipped: unknown source, source without
\* balances, or unknown destination
SkippedEntries ==
    {q \in DOMAIN accountMapping :
        \/ ~SourceFound(q)
        \/ ~SourceOf(q).hasBalances
        \/ Len(SourceOf(q).CombinedBalances) = 0
        \/ ~DestFound(accountMapping[q])}

\* C20: mapping entries with an unknown source, a source without balances
\* or an unknown destination are skipped and counted in a tally of
\* skipped entries that the run reports; they are not fatal and the other
\* entries are still processed.
C20_SkippedAreCounted ==
    (PlanBuilt /\ SkippedEntries # {}) =>
        /\ \A i \in 1..Len(planned) : planned[i].QNumber \notin SkippedEntries
        /\ \A q \in DOMAIN accountMapping \ SkippedEntries :
               BelongsToPlan(q) => \E i \in 1..Len(planned) : planned[i].QNumber = q
        /\ \E i \in Idx("skipped_tally") : calls[i].tok = Cardinality(SkippedEntries)

\* the planned transactions for which CreateTransaction was called
SentTx == IF Idx("create_tx") = {} THEN {} ELSE 1..(txi - 1)

\* C21: the amount of every transaction sync passes to CreateTransaction
\* is not 0 milliunits, also when the delta is smaller than one milliunit.
C21_NoZeroAmountSent ==
    \A i \in SentTx : TxAmount(planned[i]) # 0

\* one hundredth of a major unit, in SubUnits
Cent == 10 * SubPerMilli

\* C22: when the source's total equity and the destination's balance are
\* both whole multiples of 0.01, the amount passed to CreateTransaction is
\* exactly 1000 * equity - balance, in milliunits.
C22_TwoDecimalsExact ==
    \A i \in SentTx :
        (planned[i].NewBalance % Cent = 0 /\ planned[i].OldBalance % Cent = 0) =>
            TxAmount(planned[i]) * SubPerMilli
                = planned[i].NewBalance - planned[i].OldBalance

\* the listing request of GetAccounts was answered, and the answer was a
\* status outside 2xx or a body that does not decode
ListingFailed ==
    /\ gaPc = "returned"
    /\ listResp.sent
    /\ listResp.transport
    /\ (listResp.status \notin 200..299 \/ ~listResp.decodes)

\* the answers with a status outside 2xx other than 401
OtherRemoteFailures ==
    {r \in ListingResponses : r.transport /\ r.status \notin 200..299 /\ r.status # 401}

\* C23: when the listing answer is a 401, a status outside 2xx or a body
\* that does not decode, GetAccounts returns an error and no accounts and
\* starts no balance request, and the error of a 401 is of another kind
\* than the error of every other status outside 2xx and than the error of
\* a body that does not decode.
C23_ListingErrorKinds ==
    ListingFailed =>
        /\ gaRet.err # ""
        /\ gaRet.accounts = <<>>
        /\ goroutines = <<>>
        /\ listResp.status = 401 =>
              /\ \A r \in OtherRemoteFailures : gaRet.err # ListingError(r)
              /\ gaRet.err # "failed to parse accounts response"

\* the words "invalid" and "access" both occur in the body of the
\* validation response, in any case
SaysInvalidAccess ==
    /\ \E i \in 1..Len(vres.resp.body) : ToLower(vres.resp.body[i]) = "invalid"
    /\ \E i \in 1..Len(vres.resp.body) : ToLower(vres.resp.body[i]) = "access"

\* C24: IsAccessTokenValid returns valid without error for a 200, invalid
\* without error for a 401, invalid without error for any other status
\* whose body contains "invalid" and "access" in any case, and an error
\* for everything else (no answer, or another status and body).
C24_ValidationClassified ==
    vres.called =>
        IF ~vres.resp.transport THEN vres.err # ""
        ELSE IF vres.resp.status = 200 THEN vres.valid /\ vres.err = ""
        ELSE IF vres.resp.status = 401 THEN ~vres.valid /\ vres.err = ""
        ELSE IF SaysInvalidAccess THEN ~vres.valid /\ vres.err = ""
        ELSE vres.err # ""

C24_Witness ==
    /\ vres.called
    /\ vres.resp.transport
    /\ vres.resp.status = 500
    /\ vres.resp.body = <<"Invalid", "ACCESS", "token">>
    /\ ~vres.valid
    /\ vres.err = ""

\* the responses of the token endpoint that are failures: no answer, a
\* status other than 200, a body that does not decode, no access_token
FailingResponses ==
    {resp \in RefreshResponses :
        \/ ~resp.transport
        \/ resp.status # 200
        \/ ~resp.decodes
        \/ resp.body.access_token = ""}

\* where a command is about to call Refresh on qClient
AtRefresh == pc \in {"ensure_refresh", "login_refresh"}

\* whatever the token endpoint answers to the Refresh about to be made, a
\* failing response gives an error and the client as it is
RefreshFailsClean ==
    AtRefresh =>
        \A resp \in FailingResponses :
            /\ Refresh(qClient, resp, After(now)).err # ""
            /\ Refresh(qClient, resp, After(now)).client = qClient

\* a step in which a Refresh was made and failed
FailedRefreshStep ==
    /\ Len(calls') = Len(calls) + 2
    /\ calls'[Len(calls')].op = "refresh_failed"

\* the client after a failed Refresh is the client the call was made on:
\* the command's client, or on the retry the client just made for the
\* entered token
FailedRefreshKeepsClient ==
    FailedRefreshStep =>
        \/ AtRefresh /\ qClient' = qClient
        \/ ~AtRefresh /\ qClient' = NewClient(calls'[Len(calls') - 1].tok)

\* C25: Refresh fails on a transport error, on any status other than 200,
\* on a 200 whose body does not decode and on a 200 body without
\* access_token, and after every failed Refresh the client's refresh
\* token, access token, API server and expiresAt are what they were
\* before the call.
C25_FailedRefreshLeavesClient ==
    []RefreshFailsClean /\ [][FailedRefreshKeepsClient]_vars

C25_Witness ==
    /\ calls # <<>>
    /\ calls[Len(calls)] = Ev("refresh_failed", "no access token in response")
    /\ pc \in {"ensure_recover", "login_recover"}
    /\ qClient.accessToken = "a1"
    /\ qClient.apiServer = "s1"
    /\ qClient.refreshToken = loc.refreshToken

\* auth set has completed: its values were saved
SetCompleted == cmd = "auth_set" /\ pc = "exit0"

\* the keys of the cached access token
CachedKeys == {"questrade_access_token", "questrade_api_server",
               "questrade_expires_in"}

\* the invocation has built its client and is past the call that follows
NetworkStarted == qClient.made /\ pc # "ensure_refresh" /\ pc # "ensure_validate"

\* C26: when auth set has completed, config.json holds the three entered
\* values under questrade_refresh_token, ynab_access_token and
\* ynab_budget_id and no other key, so no cached access token, API server
\* or expires_in; the next invocation of the lifecycle manager makes no
\* validation call, and the first request it sends is a refresh.
C26_AuthSetReplacesConfig ==
    /\ SetCompleted =>
          /\ configJson.exists
          /\ DOMAIN configJson.m = {"questrade_refresh_token", "ynab_access_token",
                                    "ynab_budget_id"}
          /\ configJson.m["questrade_refresh_token"] = calls[1].tok
          /\ configJson.m["ynab_access_token"] = calls[2].tok
          /\ configJson.m["ynab_budget_id"] = calls[3].tok
          /\ DOMAIN configJson.m \cap CachedKeys = {}
    /\ (afterSet /\ cmd \in Lifecycle) =>
          /\ Idx("validate") = {}
          /\ NetworkStarted => Idx("refresh") # {}

\* the invocation that follows a completed auth set has refreshed with the
\* saved token and has made no validation call
C26_Witness ==
    /\ afterSet
    /\ cmd \in Lifecycle
    /\ pc = "ensure_ret"
    /\ ensureErr = ""
    /\ Idx("validate") = {}
    /\ Idx("refresh") # {}
    /\ calls[1] = Ev("refresh", "r1")

\* the commands that validate a cached access token
Validating == Lifecycle \cup {"auth_login"}

\* the refresh token was found in config.json and IsAccessTokenValid has
\* affirmed the cached access token
StoredAndAffirmed ==
    /\ cmd \in Validating
    /\ Idx("prompt") = {}
    /\ loc.refreshToken # ""
    /\ vres.called
    /\ vres.valid
    /\ vres.err = ""

\* the content of config.json as the command read it
LoadedFile == IF cmd = "auth_login" THEN m ELSE viper

\* C27: when the refresh token is stored and validation affirms the
\* cached access token, nothing is written to config.json for the rest of
\* the command, and the client's refresh token, access token and API
\* server are the loaded values.
C27_AffirmedWritesNothing ==
    StoredAndAffirmed =>
        /\ updates = <<>>
        /\ Idx("update") \cup Idx("write_config") \cup Idx("write_file") = {}
        /\ Idx("refresh") = {}
        /\ configJson = File(LoadedFile)
        /\ qClient.refreshToken = GetString(LoadedFile, "questrade_refresh_token")
        /\ qClient.accessToken = GetString(LoadedFile, "questrade_access_token")
        /\ qClient.apiServer = GetString(LoadedFile, "questrade_api_server")

\* mapping list is past its write of a changed refresh token, after an
\* affirmed validation
C27_Witness ==
    /\ StoredAndAffirmed
    /\ cmd = "mapping_list"
    /\ pc = "list_yaccounts"
    /\ qClient.accessToken = "a1"
    /\ configJson = File(viper)

\* mapping list is past its write of config.json, in an invocation whose
\* Refresh returned a complete token that updateConfigJSON stored
ListedAfterRefresh ==
    /\ cmd = "mapping_list"
    /\ Idx("write_config") # {}
    /\ tr.access_token # ""
    /\ tr.api_server # ""
    /\ tr.expires_in > 0
    /\ updates # <<>>
    /\ updates[Len(updates)].ok
    /\ updates[Len(updates)].accessToken = tr.access_token

\* C28: after mapping list has run an invocation that refreshed the
\* access token and changed the refresh token, config.json holds the
\* access token, API server and expires_in of the refresh response, which
\* are the client's, and not the values loaded at the start.
C28_ListKeepsRefreshedToken ==
    ListedAfterRefresh =>
        /\ GetString(configJson.m, "questrade_access_token") = tr.access_token
        /\ GetString(configJson.m, "questrade_access_token") = qClient.accessToken
        /\ GetString(configJson.m, "questrade_api_server") = tr.api_server
        /\ GetString(configJson.m, "questrade_api_server") = qClient.apiServer
        /\ GetInt(configJson.m, "questrade_expires_in") = tr.expires_in

\* the invocation is over: ensureValidQuestradeClient has returned, or
\* the command has exited
InvocationOver == pc \in {"ensure_ret", "exit0", "exit1", "panic"}

\* the prompts made before the first refresh request, and those made
\* after a refresh has failed
PromptsForMissing ==
    {i \in Idx("prompt") : \A j \in Idx("refresh") : i < j}

PromptsForRecovery ==
    {i \in Idx("prompt") : \E j \in Idx("refresh_failed") : j < i}

CallsBounded ==
    /\ Cardinality(Idx("validate")) <= 1
    /\ Cardinality(Idx("refresh")) <= 2
    /\ Cardinality(Idx("prompt")) <= 2
    /\ Cardinality(PromptsForMissing) <= 1
    /\ Cardinality(PromptsForRecovery) <= 1
    /\ Idx("prompt") = PromptsForMissing \cup PromptsForRecovery

\* C29: every invocation of the lifecycle manager comes to its end, and
\* up to there it makes at most one validation call, at most two refresh
\* calls and at most two prompts, one for a missing token and one for the
\* recovery, whatever the remote answers and the user enters.
C29_InvocationTerminatesBounded ==
    []CallsBounded /\ <>InvocationOver

\* an invocation that prompted for the missing token, failed to refresh,
\* prompted again and failed again
C29_Witness ==
    /\ InvocationOver
    /\ Cardinality(Idx("prompt")) = 2
    /\ Cardinality(Idx("refresh")) = 2
    /\ Cardinality(PromptsForMissing) = 1
    /\ Cardinality(PromptsForRecovery) = 1

\* the goroutines GetAccounts has started
Started == {k \in 1..Len(goroutines) : goroutines[k].pc # "none"}

\* a goroutine that is yet to read accountsResp (the account's number,
\* for the request or for the warning) or to write its Balances
Running(k) == goroutines[k].pc \in {"request", "response", "store"}

\* C30: when GetAccounts has returned, every goroutine it started has
\* finished, so none reads or writes the accounts afterwards, in every
\* interleaving; and no two goroutines ever write the same slot.
C30_JoinedBeforeReturn ==
    /\ gaPc = "returned" =>
          /\ Started = 1..Len(goroutines)
          /\ \A k \in Started : ~Running(k)
    /\ \A a, b \in Started :
          (a # b /\ goroutines[a].wrote # 0 /\ goroutines[b].wrote # 0) =>
              goroutines[a].wrote # goroutines[b].wrote

\* GetAccounts has returned three accounts, each written by its own
\* goroutine
C30_Witness ==
    /\ gaPc = "returned"
    /\ Len(goroutines) = 3
    /\ \A k \in 1..3 : goroutines[k].pc = "done" /\ goroutines[k].wrote = k
    /\ \A k \in 1..3 : gaRet.accounts[k].hasBalances

\* the number of balance requests sent for the account number nr
RECURSIVE RequestsUpTo(_, _)
RequestsUpTo(nr, k) ==
    IF k = 0 THEN 0
    ELSE RequestsUpTo(nr, k - 1)
         + (IF goroutines[k].number = nr THEN goroutines[k].sent ELSE 0)

RequestsFor(nr) == RequestsUpTo(nr, Len(goroutines))

\* C31: within one GetAccounts call no goroutine sends its balance request
\* twice, and when the call has returned the accounts, the balances of
\* each listed account were requested exactly once, also when the request
\* failed.
C31_OneRequestPerAccount ==
    /\ \A k \in 1..Len(goroutines) : goroutines[k].sent <= 1
    /\ (gaPc = "returned" /\ Listed) =>
          \A i \in 1..Len(accountsResp) :
              RequestsFor(accountsResp[i].Number) = 1

\* three accounts were returned, the request for the second had failed
\* and was sent once
C31_Witness ==
    /\ gaPc = "returned"
    /\ Len(accountsResp) = 3
    /\ 2 \in subFailed
    /\ goroutines[2].sent = 1
    /\ RequestsFor(accountsResp[2].Number) = 1

YnabKeys == {"ynab_access_token", "ynab_budget_id"}

\* the YNAB entries of a config.json
YnabOf(file) == [k \in (DOMAIN file.m) \cap YnabKeys |-> file.m[k]]

\* a step of sync, mapping list, mapping set or auth login
LifecycleStep == cmd \in Validating /\ cmd' = cmd /\ runs' = runs

\* C32: no step of an invocation of the lifecycle manager (prompt,
\* refresh, recovery, and the writes of auth login and mapping list)
\* changes the ynab_access_token and ynab_budget_id stored in config.json.
C32_YnabValuesKept ==
    [][LifecycleStep => YnabOf(configJson') = YnabOf(configJson)]_vars

\* the refreshed Questrade values were written to a config.json that still
\* holds the YNAB values
C32_Witness ==
    /\ cmd \in Validating
    /\ updates # <<>>
    /\ updates[Len(updates)].ok
    /\ GetString(configJson.m, "questrade_access_token") = "a2"
    /\ YnabOf(configJson) = [ynab_access_token |-> "yt", ynab_budget_id |-> "yb"]

\* the Questrade account numbers selected in this session
SelectedNumbers == {calls[i].tok : i \in Idx("select")}

\* the YNAB account selected last for a number
LastSelectedFor(number) ==
    calls[Last({i \in Idx("select") : calls[i].tok = number})].to

\* C33: when mapping set has saved, mappings.json is the function that
\* sends each Questrade account number selected in this session to the
\* YNAB account id selected last for it; it has no other entry, so nothing
\* of an earlier mappings.json is left, and it is empty when nothing was
\* selected.
C33_SavedMappingIsSession ==
    (cmd = "mapping_set" /\ pc = "exit0") =>
        /\ mappingsJson.exists
        /\ DOMAIN mappingsJson.m = SelectedNumbers
        /\ \A q \in SelectedNumbers : mappingsJson.m[q] = LastSelectedFor(q)

\* Q1 was selected twice, for Y1 and then for Y2, and the mapping saved
\* sends it to Y2
C33_Witness ==
    /\ cmd = "mapping_set"
    /\ pc = "exit0"
    /\ Cardinality(Idx("select")) = 2
    /\ SelectedNumbers = {"Q1"}
    /\ calls[First(Idx("select"))].to = "Y1"
    /\ mappingsJson = File([Q1 |-> "Y2"])

\* C34: whatever config.json holds (nothing, a JSON object, null, or no
\* valid JSON), the updateConfigJSON calls and the config writes of auth
\* login end in a stored record or in a warning: the process never panics.
C34_PersistNeverPanics == pc # "panic"

\* the Questrade tokens of the model: the refresh tokens stored, entered
\* and returned, and the access tokens stored and returned
QuestradeTokens == {"r1", "r2", "r3", "a1", "a2"}

\* the values the lines logged so far show
LoggedValues ==
    UNION {{logged[i].args[j] : j \in 1..Len(logged[i].args)} :
             i \in 1..Len(logged)}

\* C35: Refresh writes no secret to the log: the lines it logs are the same
\* whatever the refresh token sent and the tokens returned are, so no line
\* logged shows the value of a Questrade token.
C35_LogShowsNoToken == LoggedValues \cap QuestradeTokens = {}

====
